---- MODULE Spec2Model ----
(***************************************************************************)
(* Alpenglow consensus, Rust implementation: the Votor voting state        *)
(* machine (src/votor.rs), the Rotor shred buffer (src/rotor.rs) and the   *)
(* ConsensusEngine that owns one of each (src/consensus.rs), over the      *)
(* value types of src/types.rs.                                            *)
(*                                                                         *)
(* Option<T> is modelled as a sequence of length 0 (None) or 1 (Some).     *)
(* HashMap<K, V> is modelled as a function whose DOMAIN is the key set.    *)
(* A Vec built from HashMap::values() has no specified order: it is        *)
(* modelled as the set of its elements.                                    *)
(* A Vec<u8> is a sequence of bytes, each a number in 0..255.              *)
(***************************************************************************)
EXTENDS Integers, Sequences, FiniteSets, TLC

(***************************************************************************)
(* Bounds of the exploration.                                              *)
(***************************************************************************)
\* slots range over 0..MaxSlot (current_slot and the slot field of a vote)
MaxSlot == 1
\* at most this many votes are recorded over all vote sets
MaxVotes == 2
\* the same in FiveSpec, where the votes are for one block in one slot
MaxVotesFive == 6
\* the clock of EngineSpec advances at most this many times
MaxTicks == 2
\* at most this many votes are handed to the engine by other validators
MaxEngineVotes == 1
\* the engine of EngineSpec calls next_slot at most this many times
MaxEngineSlot == 2
\* encode_block is explored over 1..MaxValidators validators
MaxValidators == 12
\* the search of the protocol model goes up to slot MaxSearchSlot
MaxSearchSlot == 1
\* and pushes at most this many finalized entries per slot
MaxFinalized == 1
\* and casts at most this many votes (round 1, round 2, skip)
MaxSearchVotes == 3
\* StakeSpec: every validator holds a stake in 1..MaxStake
MaxStake == 2
\* and at most this many votes are recorded
MaxStakeVotes == 3
\* RegistrySpec: add_validator is called while the total stake stays within
MaxRegistryStake == 5

(***************************************************************************)
(* Program constants.                                                      *)
(***************************************************************************)
\* types.rs:230  (self.total_stake.0 * 80) / 100
FAST_QUORUM_PCT == 80
\* types.rs:235  (self.total_stake.0 * 60) / 100
FALLBACK_QUORUM_PCT == 60
\* lib.rs:31  pub const ROUND1_TIMEOUT_MS: u64 = 100
ROUND1_TIMEOUT_MS == 100

VARIABLES
    validator_set,   \* the ValidatorSet cloned into Votor, Rotor and the engine
    current_slot,    \* Votor.current_slot  : Slot
    current_round,   \* Votor.current_round : VoteRound
    vote_sets,       \* Votor.vote_sets     : HashMap<BlockId, VoteSet>
    finalized,       \* Votor.finalized     : Vec<FinalizationCertificate>
    received_shreds,       \* Rotor.received_shreds : HashMap<BlockId, Vec<Option<Shred>>>
    reconstructed_blocks,  \* Rotor.reconstructed_blocks : HashMap<BlockId, Block>
    validator_id,    \* ConsensusEngine.validator_id
    current_leader,  \* ConsensusEngine.current_leader
    round1_start,    \* ConsensusEngine.round1_start : Option<Instant>
    now,             \* the monotonic clock read by Instant::now(), in ms
    proposed,        \* the blocks handed to encode_block so far
    ret,             \* what the last call returned to its caller
    model,           \* tests/stateright_model.rs: the AlpenglowModel explored
    state            \* tests/stateright_model.rs: the State the search is at

votor_vars  == <<validator_set, current_slot, current_round, vote_sets, finalized>>
rotor_vars  == <<received_shreds, reconstructed_blocks>>
engine_vars == <<validator_id, current_leader, round1_start, now>>
\* the search of tests/stateright_model.rs, which builds no engine
search_vars == <<model, state>>

vars == <<votor_vars, rotor_vars, engine_vars, proposed, ret, search_vars>>

(***************************************************************************)
(* types.rs                                                                *)
(***************************************************************************)
VoteRound == {"Round1", "Round2"}

\* BlockId is a 32-byte digest; two distinct digests are enough for a fork.
BlockId == {"B1", "B2"}

Slot == 0..MaxSlot

\* Slot::next with a step of two
SlotNext_by_two(slot) == slot + 2

\* Slot::next
SlotNext(slot) == slot + 1

\* ValidatorSet::new
ValidatorSetNew == [validators |-> <<>>, total_stake |-> 0]

\* ValidatorSet::add_validator: total_stake += stake; validators.insert(id, config)
add_validator(vset, config) ==
    [validators |->
        [id \in (DOMAIN vset.validators) \cup {config.id} |->
            IF id = config.id THEN config ELSE vset.validators[id]],
     total_stake |-> vset.total_stake + config.stake]

\* ValidatorSet::get_validator, as an Option
get_validator(vset, id) ==
    IF id \in DOMAIN vset.validators THEN <<vset.validators[id]>> ELSE <<>>

\* ValidatorSet::check_fast_quorum with > for >=
check_fast_quorum_strict(vset, stake) ==
    stake > (vset.total_stake * FAST_QUORUM_PCT) \div 100

\* ValidatorSet::check_fast_quorum
check_fast_quorum(vset, stake) ==
    LET threshold == (vset.total_stake * FAST_QUORUM_PCT) \div 100
    IN  stake >= threshold

\* ValidatorSet::check_fallback_quorum with > for >=
check_fallback_quorum_strict(vset, stake) ==
    stake > (vset.total_stake * FALLBACK_QUORUM_PCT) \div 100

\* ValidatorSet::check_fallback_quorum
check_fallback_quorum(vset, stake) ==
    LET threshold == (vset.total_stake * FALLBACK_QUORUM_PCT) \div 100
    IN  stake >= threshold

\* VoteSet::new
VoteSetNew(block_id) ==
    [block_id |-> block_id, round1_votes |-> <<>>, round2_votes |-> <<>>]

\* HashMap::insert(key, value): the entry of key is set, the others are kept
MapInsert(map, key, value) ==
    [k \in (DOMAIN map) \cup {key} |-> IF k = key THEN value ELSE map[k]]

\* VoteSet::add_vote
add_vote(vote_set, vote) ==
    IF vote.round = "Round1"
    THEN [vote_set EXCEPT !.round1_votes = MapInsert(@, vote.validator, vote)]
    ELSE [vote_set EXCEPT !.round2_votes = MapInsert(@, vote.validator, vote)]

(***************************************************************************)
(* votor.rs                                                                *)
(***************************************************************************)
RECURSIVE SumStake(_, _)
\* the fold of Sum for StakeWeight over the stakes of the ids that are registered
SumStake(vset, ids) ==
    IF ids = {} THEN 0
    ELSE LET id == CHOOSE x \in ids : TRUE
             v  == get_validator(vset, id)
         IN  (IF v = <<>> THEN 0 ELSE v[1].stake) + SumStake(vset, ids \ {id})

\* Votor::calculate_vote_stake
calculate_vote_stake(vset, votes) == SumStake(vset, DOMAIN votes)

\* Votor::create_certificate
create_certificate(block_id, slot, round, votes, total_stake) ==
    [block_id |-> block_id, slot |-> slot, round |-> round,
     votes |-> {votes[k] : k \in DOMAIN votes}, total_stake |-> total_stake]

\* Votor::validate_vote: Ok(()) iff the validator is registered; the slot
\* comparison has an empty body
validate_vote(vset, vote) == get_validator(vset, vote.validator) # <<>>

\* the entry(..).or_insert_with(..) of process_vote
or_insert_with(vsets, block_id) ==
    IF block_id \in DOMAIN vsets THEN vsets
    ELSE MapInsert(vsets, block_id, VoteSetNew(block_id))

\* the double-voting match looking into the map of the other round
is_double_vote_other_round(vote_set, vote) ==
    IF vote.round = "Round1"
    THEN vote.validator \in DOMAIN vote_set.round2_votes
    ELSE vote.validator \in DOMAIN vote_set.round1_votes

\* the double-voting match of process_vote
is_double_vote(vote_set, vote) ==
    IF vote.round = "Round1"
    THEN vote.validator \in DOMAIN vote_set.round1_votes
    ELSE vote.validator \in DOMAIN vote_set.round2_votes

Ok(val) == [tag |-> "Ok", val |-> val]
Err(kind, validator) == [tag |-> "Err", err |-> kind, validator |-> validator]

\* check_finalization whose fallback branch tests the round-1 stake
check_finalization_round1_stake(vset, round_now, vsets, fin, block_id, slot) ==
    LET vote_set     == vsets[block_id]
        round1_stake == calculate_vote_stake(vset, vote_set.round1_votes)
        round2_stake == calculate_vote_stake(vset, vote_set.round2_votes)
    IN  IF check_fast_quorum(vset, round1_stake)
        THEN LET cert == create_certificate(block_id, slot, "Round1",
                                            vote_set.round1_votes, round1_stake)
             IN  [finalized |-> Append(fin, cert), ret |-> Ok(<<cert>>)]
        ELSE IF round_now = "Round2" /\ check_fallback_quorum(vset, round1_stake)
        THEN LET cert == create_certificate(block_id, slot, "Round2",
                                            vote_set.round2_votes, round2_stake)
             IN  [finalized |-> Append(fin, cert), ret |-> Ok(<<cert>>)]
        ELSE [finalized |-> fin, ret |-> Ok(<<>>)]

\* check_finalization without the matches!(current_round, Round2) condition
check_finalization_any_round(vset, round_now, vsets, fin, block_id, slot) ==
    LET vote_set     == vsets[block_id]
        round1_stake == calculate_vote_stake(vset, vote_set.round1_votes)
        round2_stake == calculate_vote_stake(vset, vote_set.round2_votes)
    IN  IF check_fast_quorum(vset, round1_stake)
        THEN LET cert == create_certificate(block_id, slot, "Round1",
                                            vote_set.round1_votes, round1_stake)
             IN  [finalized |-> Append(fin, cert), ret |-> Ok(<<cert>>)]
        ELSE IF check_fallback_quorum(vset, round2_stake)
        THEN LET cert == create_certificate(block_id, slot, "Round2",
                                            vote_set.round2_votes, round2_stake)
             IN  [finalized |-> Append(fin, cert), ret |-> Ok(<<cert>>)]
        ELSE [finalized |-> fin, ret |-> Ok(<<>>)]

\* check_finalization whose fast path is taken in Round1 only
check_finalization_fast_in_round1(vset, round_now, vsets, fin, block_id, slot) ==
    LET vote_set     == vsets[block_id]
        round1_stake == calculate_vote_stake(vset, vote_set.round1_votes)
        round2_stake == calculate_vote_stake(vset, vote_set.round2_votes)
    IN  IF round_now = "Round1" /\ check_fast_quorum(vset, round1_stake)
        THEN LET cert == create_certificate(block_id, slot, "Round1",
                                            vote_set.round1_votes, round1_stake)
             IN  [finalized |-> Append(fin, cert), ret |-> Ok(<<cert>>)]
        ELSE IF round_now = "Round2" /\ check_fallback_quorum(vset, round2_stake)
        THEN LET cert == create_certificate(block_id, slot, "Round2",
                                            vote_set.round2_votes, round2_stake)
             IN  [finalized |-> Append(fin, cert), ret |-> Ok(<<cert>>)]
        ELSE [finalized |-> fin, ret |-> Ok(<<>>)]

\* check_finalization that tests the fallback path before the fast path
check_finalization_fallback_first(vset, round_now, vsets, fin, block_id, slot) ==
    LET vote_set     == vsets[block_id]
        round1_stake == calculate_vote_stake(vset, vote_set.round1_votes)
        round2_stake == calculate_vote_stake(vset, vote_set.round2_votes)
    IN  IF round_now = "Round2" /\ check_fallback_quorum(vset, round2_stake)
        THEN LET cert == create_certificate(block_id, slot, "Round2",
                                            vote_set.round2_votes, round2_stake)
             IN  [finalized |-> Append(fin, cert), ret |-> Ok(<<cert>>)]
        ELSE IF check_fast_quorum(vset, round1_stake)
        THEN LET cert == create_certificate(block_id, slot, "Round1",
                                            vote_set.round1_votes, round1_stake)
             IN  [finalized |-> Append(fin, cert), ret |-> Ok(<<cert>>)]
        ELSE [finalized |-> fin, ret |-> Ok(<<>>)]

\* check_finalization that keeps only the newest certificate
check_finalization_replacing(vset, round_now, vsets, fin, block_id, slot) ==
    LET vote_set     == vsets[block_id]
        round1_stake == calculate_vote_stake(vset, vote_set.round1_votes)
        round2_stake == calculate_vote_stake(vset, vote_set.round2_votes)
    IN  IF check_fast_quorum(vset, round1_stake)
        THEN LET cert == create_certificate(block_id, slot, "Round1",
                                            vote_set.round1_votes, round1_stake)
             IN  [finalized |-> <<cert>>, ret |-> Ok(<<cert>>)]
        ELSE IF round_now = "Round2" /\ check_fallback_quorum(vset, round2_stake)
        THEN LET cert == create_certificate(block_id, slot, "Round2",
                                            vote_set.round2_votes, round2_stake)
             IN  [finalized |-> <<cert>>, ret |-> Ok(<<cert>>)]
        ELSE [finalized |-> fin, ret |-> Ok(<<>>)]

\* Votor::check_finalization: the finalized list and the value returned
check_finalization(vset, round_now, vsets, fin, block_id, slot) ==
    LET vote_set     == vsets[block_id]
        round1_stake == calculate_vote_stake(vset, vote_set.round1_votes)
        round2_stake == calculate_vote_stake(vset, vote_set.round2_votes)
    IN  IF check_fast_quorum(vset, round1_stake)
        THEN LET cert == create_certificate(block_id, slot, "Round1",
                                            vote_set.round1_votes, round1_stake)
             IN  [finalized |-> Append(fin, cert), ret |-> Ok(<<cert>>)]
        ELSE IF round_now = "Round2" /\ check_fallback_quorum(vset, round2_stake)
        THEN LET cert == create_certificate(block_id, slot, "Round2",
                                            vote_set.round2_votes, round2_stake)
             IN  [finalized |-> Append(fin, cert), ret |-> Ok(<<cert>>)]
        ELSE [finalized |-> fin, ret |-> Ok(<<>>)]

\* process_vote that validates the voter after recording the vote
ProcessVoteOutcome_late_validation(vote) ==
    LET entered == or_insert_with(vote_sets, vote.block_id)
    IN  IF is_double_vote(entered[vote.block_id], vote)
        THEN [vote_sets |-> entered, finalized |-> finalized,
              ret |-> Err("DoubleVote", vote.validator)]
        ELSE LET added == [entered EXCEPT ![vote.block_id] = add_vote(@, vote)]
                 cf    == check_finalization(validator_set, current_round,
                              added, finalized, vote.block_id, vote.slot)
             IN  IF ~validate_vote(validator_set, vote)
                 THEN [vote_sets |-> added, finalized |-> finalized,
                       ret |-> Err("UnknownValidator", vote.validator)]
                 ELSE [vote_sets |-> added, finalized |-> cf.finalized,
                       ret |-> cf.ret]

\* Votor::process_vote: the fields it writes and the value it returns
ProcessVoteOutcome(vote) ==
    IF ~validate_vote(validator_set, vote)
    THEN [vote_sets |-> vote_sets, finalized |-> finalized,
          ret |-> Err("UnknownValidator", vote.validator)]
    ELSE LET entered == or_insert_with(vote_sets, vote.block_id)
         IN  IF is_double_vote(entered[vote.block_id], vote)
             THEN [vote_sets |-> entered, finalized |-> finalized,
                   ret |-> Err("DoubleVote", vote.validator)]
             ELSE LET added == [entered EXCEPT
                                  ![vote.block_id] = add_vote(@, vote)]
                      cf    == check_finalization(validator_set, current_round,
                                   added, finalized, vote.block_id, vote.slot)
                  IN  [vote_sets |-> added, finalized |-> cf.finalized,
                       ret |-> cf.ret]

\* the votes held by the vote sets
RecordedVotes(vsets) ==
    UNION {{vsets[b].round1_votes[k] : k \in DOMAIN vsets[b].round1_votes}
             \cup {vsets[b].round2_votes[k] : k \in DOMAIN vsets[b].round2_votes}
           : b \in DOMAIN vsets}

\* number of votes recorded over all vote sets
TotalVotes(vsets) ==
    LET RECURSIVE Count(_)
        Count(bs) ==
            IF bs = {} THEN 0
            ELSE LET b == CHOOSE x \in bs : TRUE
                 IN  Cardinality(DOMAIN vsets[b].round1_votes)
                     + Cardinality(DOMAIN vsets[b].round2_votes)
                     + Count(bs \ {b})
    IN  Count(DOMAIN vsets)

(***************************************************************************)
(* rotor.rs                                                                *)
(*                                                                         *)
(* bincode::serialize of a Block (fixed-width little-endian integers):     *)
(*   id            32 bytes                                                *)
(*   slot          u64, 8 bytes                                            *)
(*   parent        one tag byte: 0 (None), or 1 followed by 32 bytes       *)
(*   leader        u64                                                     *)
(*   transactions  u64 count, then per entry a u64 length and its bytes    *)
(*   timestamp     u64                                                     *)
(* bincode::deserialize reads the same layout from the front of the byte   *)
(* string, fails when the bytes run out or the tag byte is neither 0 nor   *)
(* 1, and ignores bytes left over.                                         *)
(***************************************************************************)
\* types.rs:69  pub struct BlockId([u8; 32])
ID_BYTES == 32
\* types.rs:53  pub struct Slot(pub u64)
U64_BYTES == 8
\* rotor.rs:123  (shreds.len() * 80) / 100
RECONSTRUCT_PCT == 80

Min(a, b) == IF a <= b THEN a ELSE b
Max(a, b) == IF a >= b THEN a ELSE b

\* the integers of the blocks explored are below 2^24: their five high bytes
\* are zero; a u64 read with a non-zero high byte is read as 2^24
Saturated == 256 * 256 * 256

\* the 8 bytes of a u64, least significant first
U64Bytes(v) ==
    [i \in 1..U64_BYTES |->
        IF i = 1 THEN v % 256
        ELSE IF i = 2 THEN (v \div 256) % 256
        ELSE IF i = 3 THEN (v \div (256 * 256)) % 256
        ELSE 0]

\* the u64 of 8 bytes
U64Value(bytes) ==
    IF \E i \in 4..U64_BYTES : bytes[i] # 0 THEN Saturated
    ELSE bytes[1] + 256 * bytes[2] + 256 * 256 * bytes[3]

\* BlockId::new([1u8; 32]) is block B1, BlockId::new([2u8; 32]) is block B2
IdBytes(id) == [i \in 1..ID_BYTES |-> IF id = "B1" THEN 1 ELSE 2]

\* any digest other than those of B1 and B2
OtherBlockId == "B?"

IdValue(bytes) ==
    IF bytes = IdBytes("B1") THEN "B1"
    ELSE IF bytes = IdBytes("B2") THEN "B2"
    ELSE OtherBlockId

RECURSIVE TransactionsBytes(_)
\* the entries of a Vec<Vec<u8>>, each behind its length
TransactionsBytes(txs) ==
    IF txs = <<>> THEN <<>>
    ELSE U64Bytes(Len(txs[1])) \o txs[1] \o TransactionsBytes(Tail(txs))

\* bincode::serialize(block)
serialize(block) ==
    IdBytes(block.id)
      \o U64Bytes(block.slot)
      \o (IF block.parent = <<>> THEN <<0>>
          ELSE <<1>> \o IdBytes(block.parent[1]))
      \o U64Bytes(block.leader)
      \o U64Bytes(Len(block.transactions))
      \o TransactionsBytes(block.transactions)
      \o U64Bytes(block.timestamp)

RECURSIVE ReadTransactions(_, _, _)
\* reads count entries from position pos on: the entries and the position
\* after them, or ok = FALSE when the bytes run out
ReadTransactions(bytes, pos, count) ==
    IF count = 0 THEN [ok |-> TRUE, txs |-> <<>>, pos |-> pos]
    ELSE IF pos + U64_BYTES - 1 > Len(bytes)
    THEN [ok |-> FALSE, txs |-> <<>>, pos |-> pos]
    ELSE LET length == U64Value(SubSeq(bytes, pos, pos + U64_BYTES - 1))
             from   == pos + U64_BYTES
         IN  IF length > Len(bytes) - from + 1
             THEN [ok |-> FALSE, txs |-> <<>>, pos |-> pos]
             ELSE LET rest == ReadTransactions(bytes, from + length, count - 1)
                  IN  [ok  |-> rest.ok,
                       txs |-> <<SubSeq(bytes, from, from + length - 1)>>
                                  \o rest.txs,
                       pos |-> rest.pos]

\* bincode::deserialize::<Block>(bytes), as an Option: None is the error
deserialize(bytes) ==
    LET at_tag == ID_BYTES + U64_BYTES + 1
    IN  IF Len(bytes) < at_tag THEN <<>>
        ELSE IF bytes[at_tag] \notin {0, 1} THEN <<>>
        ELSE LET some      == bytes[at_tag] = 1
                 at_leader == IF some THEN at_tag + 1 + ID_BYTES ELSE at_tag + 1
                 at_txs    == at_leader + 2 * U64_BYTES
             IN  IF Len(bytes) < at_txs - 1 THEN <<>>
                 ELSE LET count == U64Value(SubSeq(bytes, at_leader + U64_BYTES,
                                                   at_txs - 1))
                          read  == ReadTransactions(bytes, at_txs, count)
                      IN  IF ~read.ok \/ Len(bytes) < read.pos + U64_BYTES - 1
                          THEN <<>>
                          ELSE <<[id     |-> IdValue(SubSeq(bytes, 1, ID_BYTES)),
                                  slot   |-> U64Value(SubSeq(bytes, ID_BYTES + 1,
                                                             at_tag - 1)),
                                  parent |-> IF some
                                             THEN <<IdValue(SubSeq(bytes, at_tag + 1,
                                                                   at_leader - 1))>>
                                             ELSE <<>>,
                                  leader |-> U64Value(SubSeq(bytes, at_leader,
                                                   at_leader + U64_BYTES - 1)),
                                  transactions |-> read.txs,
                                  timestamp |-> U64Value(SubSeq(bytes, read.pos,
                                                   read.pos + U64_BYTES - 1))]>>

\* ValidatorSet::len
validator_set_len(vset) == Cardinality(DOMAIN vset.validators)

\* encode_block without the padding loop
encode_block_unpadded(vset, block) ==
    LET serialized     == serialize(block)
        num_validators == validator_set_len(vset)
        chunk_size     == (Len(serialized) + num_validators - 1)
                              \div num_validators
        chunks         == (Len(serialized) + chunk_size - 1) \div chunk_size
    IN  [i \in 1..chunks |->
            [block_id     |-> block.id,
             index        |-> i - 1,
             total_shreds |-> num_validators,
             data         |-> SubSeq(serialized, (i - 1) * chunk_size + 1,
                                     Min(i * chunk_size, Len(serialized)))]]

\* Rotor::encode_block: the chunks of the serialized block, padded with
\* empty shreds up to the number of validators
encode_block(vset, block) ==
    LET serialized     == serialize(block)
        num_validators == validator_set_len(vset)
        chunk_size     == (Len(serialized) + num_validators - 1)
                              \div num_validators
        chunks         == (Len(serialized) + chunk_size - 1) \div chunk_size
    IN  [i \in 1..Max(chunks, num_validators) |->
            [block_id     |-> block.id,
             index        |-> i - 1,
             total_shreds |-> num_validators,
             data         |-> IF i <= chunks
                              THEN SubSeq(serialized, (i - 1) * chunk_size + 1,
                                          Min(i * chunk_size, Len(serialized)))
                              ELSE <<>>]]

RotorError(kind) == [tag |-> "Err", err |-> kind]

RECURSIVE Concat(_)
\* extend_from_slice over the shreds that are present, in index order
Concat(shreds) ==
    IF shreds = <<>> THEN <<>>
    ELSE (IF shreds[1] = <<>> THEN <<>> ELSE shreds[1][1].data)
            \o Concat(Tail(shreds))

\* the number of entries of the buffer that are Some
received_count(shreds) == Cardinality({i \in 1..Len(shreds) : shreds[i] # <<>>})

\* try_reconstruct_block that caches the decoded block without comparing its
\* id with the key
try_reconstruct_block_unverified(buffers, cache, block_id) ==
    IF block_id \in DOMAIN cache
    THEN [reconstructed_blocks |-> cache, ret |-> Ok(<<cache[block_id]>>)]
    ELSE IF block_id \notin DOMAIN buffers
    THEN [reconstructed_blocks |-> cache,
          ret |-> RotorError("InsufficientShreds")]
    ELSE LET shreds            == buffers[block_id]
             min_shreds_needed == (Len(shreds) * RECONSTRUCT_PCT) \div 100
         IN  IF received_count(shreds) < min_shreds_needed
             THEN [reconstructed_blocks |-> cache, ret |-> Ok(<<>>)]
             ELSE LET block == deserialize(Concat(shreds))
                  IN  IF block = <<>>
                      THEN [reconstructed_blocks |-> cache,
                            ret |-> RotorError("ErasureCodingFailed")]
                      ELSE [reconstructed_blocks |->
                                MapInsert(cache, block_id, block[1]),
                            ret |-> Ok(block)]

\* Rotor::try_reconstruct_block: the cache and the value returned
try_reconstruct_block(buffers, cache, block_id) ==
    IF block_id \in DOMAIN cache
    THEN [reconstructed_blocks |-> cache, ret |-> Ok(<<cache[block_id]>>)]
    ELSE IF block_id \notin DOMAIN buffers
    THEN [reconstructed_blocks |-> cache,
          ret |-> RotorError("InsufficientShreds")]
    ELSE LET shreds            == buffers[block_id]
             min_shreds_needed == (Len(shreds) * RECONSTRUCT_PCT) \div 100
         IN  IF received_count(shreds) < min_shreds_needed
             THEN [reconstructed_blocks |-> cache, ret |-> Ok(<<>>)]
             ELSE LET block == deserialize(Concat(shreds))
                  IN  IF block = <<>>
                      THEN [reconstructed_blocks |-> cache,
                            ret |-> RotorError("ErasureCodingFailed")]
                      ELSE IF block[1].id # block_id
                      THEN [reconstructed_blocks |-> cache,
                            ret |-> RotorError("InvalidShred")]
                      ELSE [reconstructed_blocks |->
                                MapInsert(cache, block_id, block[1]),
                            ret |-> Ok(block)]

\* Rotor::receive_shred on a Rotor with these buffers and this cache: the
\* fields it writes and the value it returns
ReceiveShredInto(buffers, cache, shred) ==
    LET entered == IF shred.block_id \in DOMAIN buffers
                   THEN buffers
                   ELSE MapInsert(buffers, shred.block_id,
                                  [i \in 1..shred.total_shreds |-> <<>>])
        shreds  == entered[shred.block_id]
    IN  IF shred.index < Len(shreds)
        THEN LET stored == [entered EXCEPT
                              ![shred.block_id][shred.index + 1] = <<shred>>]
                 tried  == try_reconstruct_block(stored, cache, shred.block_id)
             IN  [received_shreds      |-> stored,
                  reconstructed_blocks |-> tried.reconstructed_blocks,
                  ret                  |-> tried.ret]
        ELSE [received_shreds      |-> entered,
              reconstructed_blocks |-> cache,
              ret                  |-> RotorError("InvalidShred")]

\* Rotor::receive_shred on the Rotor of the engine
ReceiveShredOutcome(shred) ==
    ReceiveShredInto(received_shreds, reconstructed_blocks, shred)

\* the bytes Block::compute_id feeds to the hasher: the serialized slot,
\* parent, leader and timestamp
HeaderBytes(block) ==
    U64Bytes(block.slot)
      \o (IF block.parent = <<>> THEN <<0>>
          ELSE <<1>> \o IdBytes(block.parent[1]))
      \o U64Bytes(block.leader)
      \o U64Bytes(block.timestamp)

\* Block::compute_id: the SHA-256 digest of those bytes. A digest is written
\* as the bytes it is the digest of: two byte strings have the same digest
\* only if they are equal, and no digest met here is [1u8; 32] or [2u8; 32]
compute_id(block) == "sha256" \o ToString(HeaderBytes(block))

\* Rotor::has_block
has_block(cache, block_id) == block_id \in DOMAIN cache

\* Rotor::get_block, as an Option
get_block(cache, block_id) ==
    IF block_id \in DOMAIN cache THEN <<cache[block_id]>> ELSE <<>>

(***************************************************************************)
(* Validator sets the Votor is constructed with.                           *)
(***************************************************************************)
ValidatorConfig(id, stake) ==
    [id |-> id, stake |-> stake, is_byzantine |-> FALSE, is_offline |-> FALSE]

RECURSIVE BuildValidatorSet(_)
\* add_validator called for each configuration in turn on ValidatorSet::new()
BuildValidatorSet(configs) ==
    IF configs = <<>> THEN ValidatorSetNew
    ELSE add_validator(BuildValidatorSet(SubSeq(configs, 1, Len(configs) - 1)),
                       configs[Len(configs)])

\* validators 0..n-1 with the given stakes
ConfigsOf(stakes) == [i \in 1..Len(stakes) |-> ValidatorConfig(i - 1, stakes[i])]

\* two validators: the fast quorum (4 of 5) needs both, the fallback quorum
\* (3 of 5) is held by validator 0 alone
TwoValidators == BuildValidatorSet(ConfigsOf(<<3, 2>>))

\* create_test_validator_set(5): five validators of stake 100
FiveValidators == BuildValidatorSet(ConfigsOf(<<100, 100, 100, 100, 100>>))

\* an id no validator set registers
UnknownId == 9

\* the votes a caller may hand to process_vote
VoteOf(ids, blocks, slots) ==
    [validator : ids, block_id : blocks, slot : slots, round : VoteRound]

Vote == VoteOf(0..1 \cup {UnknownId}, BlockId, Slot)

\* V0..V3 vote on block B1 in slot 0 (V4 is registered and silent)
VoteFive == VoteOf(0..3 \cup {UnknownId}, {"B1"}, {0})

(***************************************************************************)
(* The state machine.                                                      *)
(***************************************************************************)
\* Rotor::new
InitRotor ==
    /\ received_shreds = <<>>
    /\ reconstructed_blocks = <<>>

\* Votor::new
InitVotor(vset) ==
    /\ validator_set = vset
    /\ current_slot = 0
    /\ current_round = "Round1"
    /\ vote_sets = <<>>
    /\ finalized = <<>>
    /\ ret = [tag |-> "New"]

\* Votor::process_vote
process_vote(vote) ==
    LET o == ProcessVoteOutcome(vote)
    IN  /\ vote_sets' = o.vote_sets
        /\ finalized' = o.finalized
        /\ ret' = o.ret
        /\ UNCHANGED <<validator_set, current_slot, current_round>>

\* advance_to_round2 that toggles the round
advance_to_round2_toggle ==
    /\ current_round' = (IF current_round = "Round1" THEN "Round2" ELSE "Round1")
    /\ ret' = [tag |-> "Unit"]
    /\ UNCHANGED <<validator_set, current_slot, vote_sets, finalized>>

\* Votor::advance_to_round2
advance_to_round2 ==
    /\ current_round' = "Round2"
    /\ ret' = [tag |-> "Unit"]
    /\ UNCHANGED <<validator_set, current_slot, vote_sets, finalized>>

\* Votor::next_slot
next_slot ==
    /\ current_slot < MaxSlot
    /\ current_slot' = SlotNext(current_slot)
    /\ current_round' = "Round1"
    /\ ret' = [tag |-> "Unit"]
    /\ UNCHANGED <<validator_set, vote_sets, finalized>>

\* the votes explored: cast for a slot that has started, and within the cap
Explored(vote, cap) ==
    /\ vote.slot <= current_slot
    /\ TotalVotes(ProcessVoteOutcome(vote).vote_sets) <= cap

\* ConsensusEngine::new for validator id: it builds the Votor and the Rotor
\* over clones of the validator set; validator 0 is the first leader. No
\* AlpenglowModel is explored (None) where an engine runs
InitEngine(id, vset) ==
    /\ InitVotor(vset)
    /\ InitRotor
    /\ validator_id = id
    /\ current_leader = 0
    /\ round1_start = <<>>
    /\ now = 0
    /\ proposed = {}
    /\ model = <<>>
    /\ state = <<>>

\* what the methods of Votor do not reach
outside_votor == <<rotor_vars, engine_vars, proposed, search_vars>>

\* Spec and FiveSpec call the methods of the Votor of a new engine
Init == InitEngine(0, TwoValidators)

\* a caller hands a vote to process_vote
VoteArrives ==
    \E vote \in Vote :
        Explored(vote, MaxVotes) /\ process_vote(vote) /\ UNCHANGED outside_votor

\* the round-1 timeout
Round1Expires == advance_to_round2 /\ UNCHANGED outside_votor

\* the slot ends
SlotEnds == next_slot /\ UNCHANGED outside_votor

Next ==
    \/ VoteArrives
    \/ Round1Expires
    \/ SlotEnds

Spec == Init /\ [][Next]_vars

\* the set-up of test_fast_path_finalization and test_fallback_path_finalization
\* (five validators of stake 100, V0..V3 voting on block B1 in slot 0), and the
\* same votes handed to the Votor of the two-validator set
FiveInit == InitEngine(0, FiveValidators) \/ InitEngine(0, TwoValidators)

FiveVoteArrives ==
    \E vote \in VoteFive :
        /\ Explored(vote, MaxVotesFive)
        /\ process_vote(vote)
        /\ UNCHANGED outside_votor

FiveNext ==
    \/ FiveVoteArrives
    \/ Round1Expires

FiveSpec == FiveInit /\ [][FiveNext]_vars

(***************************************************************************)
(* The Votor over every distribution of stakes in 1..MaxStake among two or *)
(* three validators.  The validators flagged is_byzantine hold at most 20% *)
(* of the stake and vote as they please; each of the others casts at most  *)
(* one Round1 vote per slot.                                               *)
(***************************************************************************)
StakeInit ==
    \E n \in 2..3 : \E stakes \in [1..n -> 1..MaxStake] :
        \E byzantine \in SUBSET (0..(n - 1)) :
            LET vset == BuildValidatorSet(
                            [i \in 1..n |->
                                [ValidatorConfig(i - 1, stakes[i]) EXCEPT
                                    !.is_byzantine = (i - 1) \in byzantine]])
            IN  /\ 100 * SumStake(vset, byzantine) <= 20 * vset.total_stake
                /\ InitEngine(0, vset)

\* a vote of a registered validator is handed to process_vote; a validator
\* that is not flagged has no Round1 vote recorded for the slot when it
\* casts one
StakeVoteArrives ==
    \E vote \in VoteOf(0..2, BlockId, {0}) :
        /\ Explored(vote, MaxStakeVotes)
        /\ vote.validator \in DOMAIN validator_set.validators
        /\ (vote.round = "Round1"
               /\ ~validator_set.validators[vote.validator].is_byzantine)
              => \A old \in RecordedVotes(vote_sets) :
                     ~(old.validator = vote.validator /\ old.round = "Round1"
                         /\ old.slot = vote.slot)
        /\ process_vote(vote)
        /\ UNCHANGED outside_votor

StakeNext ==
    \/ StakeVoteArrives
    \/ Round1Expires

StakeSpec == StakeInit /\ [][StakeNext]_vars

(***************************************************************************)
(* The Rotor of a new engine: one block is encoded and its shreds are      *)
(* delivered, in any order and any number of times.                        *)
(***************************************************************************)
\* create_test_validator_set with n validators of stake 100
EqualStake(n) == BuildValidatorSet(ConfigsOf([i \in 1..n |-> 100]))

RotorValidatorSets == {EqualStake(n) : n \in {1, 2, 4, 5}}

Block(id, slot, parent, leader, transactions, timestamp) ==
    [id |-> id, slot |-> slot, parent |-> parent, leader |-> leader,
     transactions |-> transactions, timestamp |-> timestamp]

\* create_test_block of rotor.rs; a block without transactions; a block with
\* a parent; a block of two transactions, sixteen zero bytes and none
RotorBlocks ==
    {Block("B1", 0, <<>>, 0, <<<<1, 2, 3, 4>>>>, 1000),
     Block("B1", 0, <<>>, 0, <<>>, 1000),
     Block("B2", 1, <<"B1">>, 1, <<<<7>>>>, 1000),
     Block("B1", 0, <<>>, 0, <<[i \in 1..16 |-> 0], <<>>>>, 0)}

\* the elements of a sequence
Range(seq) == {seq[i] : i \in 1..Len(seq)}

\* the shreds of some blocks, encoded over a validator set
ShredsOf(vset, blocks) == UNION {Range(encode_block(vset, b)) : b \in blocks}

\* what the methods of Rotor do not reach
outside_rotor ==
    <<validator_set, current_slot, current_round, vote_sets, finalized,
      engine_vars, search_vars>>

\* Rotor::encode_block; the block and its shreds are the caller's
rotor_encode_block(block) ==
    /\ proposed' = proposed \cup {block}
    /\ ret' = Ok(encode_block(validator_set, block))
    /\ UNCHANGED <<rotor_vars, outside_rotor>>

\* Rotor::receive_shred
rotor_receive_shred(shred) ==
    LET o == ReceiveShredOutcome(shred)
    IN  /\ received_shreds' = o.received_shreds
        /\ reconstructed_blocks' = o.reconstructed_blocks
        /\ ret' = o.ret
        /\ UNCHANGED <<outside_rotor, proposed>>

RotorInit == \E vset \in RotorValidatorSets : InitEngine(0, vset)

\* the leader encodes one block
BlockEncoded ==
    \E block \in RotorBlocks : proposed = {} /\ rotor_encode_block(block)

\* a shred of the block arrives
ShredArrives ==
    \E shred \in ShredsOf(validator_set, proposed) : rotor_receive_shred(shred)

RotorNext ==
    \/ BlockEncoded
    \/ ShredArrives

RotorSpec == RotorInit /\ [][RotorNext]_vars

(***************************************************************************)
(* The same Rotor fed by the network: receive_shred is public and takes    *)
(* any Shred, so besides the shreds of the block it is handed shreds that  *)
(* no encode_block produced.                                               *)
(***************************************************************************)
\* shreds for the ids of these blocks that carry no data: their index is 0 or
\* N and their total_shreds is 0 or N, N the number of validators
ForgedShreds(vset, blocks) ==
    LET n == validator_set_len(vset)
    IN  {[block_id |-> b.id, index |-> i, total_shreds |-> t, data |-> <<>>] :
            b \in blocks, i \in {0, n}, t \in {0, n}}

\* a shred that is not the leader's arrives
ForgedShredArrives ==
    \E shred \in ForgedShreds(validator_set, proposed) :
        rotor_receive_shred(shred)

OpenRotorNext ==
    \/ BlockEncoded
    \/ ShredArrives
    \/ ForgedShredArrives

OpenRotorSpec == RotorInit /\ [][OpenRotorNext]_vars

(***************************************************************************)
(* encode_block alone, over validator sets of every size up to             *)
(* MaxValidators: it takes &self and may be called for any block, any      *)
(* number of times.                                                        *)
(***************************************************************************)
EncodeInit == \E n \in 1..MaxValidators : InitEngine(0, EqualStake(n))

\* a block is encoded
AnyBlockEncoded == \E block \in RotorBlocks : rotor_encode_block(block)

EncodeNext == AnyBlockEncoded

EncodeSpec == EncodeInit /\ [][EncodeNext]_vars

(***************************************************************************)
(* consensus.rs: the engine of one validator.                              *)
(***************************************************************************)
\* the values returned: (), a bool, Ok(())
Unit == [tag |-> "Unit"]
Bool(b) == [tag |-> "Bool", bool |-> b]
OkUnit == [tag |-> "Ok", unit |-> TRUE]

\* ConsensusError::NotLeader(slot)
NotLeader(slot) == [tag |-> "Err", err |-> "NotLeader", slot |-> slot]

\* ConsensusError::InvalidSlot { expected, got }
InvalidSlot(expected, got) ==
    [tag |-> "Err", err |-> "InvalidSlot", expected |-> expected, got |-> got]

\* ConsensusError::VotorError and ::RotorError, converted by #[from]
ConsensusError(kind, source) == [tag |-> "Err", err |-> kind, source |-> source]

\* ConsensusConfig::default().round1_timeout
round1_timeout == ROUND1_TIMEOUT_MS

\* start.elapsed() >= self.config.round1_timeout
round1_elapsed ==
    round1_start # <<>> /\ now - round1_start[1] >= round1_timeout

\* ConsensusEngine::vote_for_block: what it writes to the Votor and returns
VoteForBlockOutcome(block) ==
    LET config == get_validator(validator_set, validator_id)
        vote   == [validator |-> validator_id, block_id |-> block.id,
                   slot |-> block.slot, round |-> current_round]
        o      == ProcessVoteOutcome(vote)
    IN  IF config # <<>> /\ (config[1].is_byzantine \/ config[1].is_offline)
        THEN [vote_sets |-> vote_sets, finalized |-> finalized, ret |-> OkUnit]
        ELSE [vote_sets |-> o.vote_sets, finalized |-> o.finalized,
              ret |-> IF o.ret.tag = "Err"
                      THEN ConsensusError("VotorError", o.ret)
                      ELSE OkUnit]

\* ConsensusEngine::receive_shred: the fields it writes and the value returned
EngineReceiveShredOutcome(shred) ==
    LET r == ReceiveShredOutcome(shred)
    IN  IF r.ret.tag = "Err"
        THEN [received_shreds |-> r.received_shreds,
              reconstructed_blocks |-> r.reconstructed_blocks,
              vote_sets |-> vote_sets, finalized |-> finalized,
              ret |-> ConsensusError("RotorError", r.ret)]
        ELSE IF r.ret.val = <<>>
        THEN [received_shreds |-> r.received_shreds,
              reconstructed_blocks |-> r.reconstructed_blocks,
              vote_sets |-> vote_sets, finalized |-> finalized,
              ret |-> OkUnit]
        ELSE LET v == VoteForBlockOutcome(r.ret.val[1])
             IN  [received_shreds |-> r.received_shreds,
                  reconstructed_blocks |-> r.reconstructed_blocks,
                  vote_sets |-> v.vote_sets, finalized |-> v.finalized,
                  ret |-> v.ret]

\* propose_block that starts the round-1 timer before its two checks
propose_block_timer_first(block) ==
    /\ round1_start' = <<now>>
    /\ IF current_leader # validator_id
       THEN /\ ret' = NotLeader(block.slot)
            /\ UNCHANGED proposed
       ELSE IF block.slot # current_slot
       THEN /\ ret' = InvalidSlot(current_slot, block.slot)
            /\ UNCHANGED proposed
       ELSE /\ ret' = Ok(encode_block(validator_set, block))
            /\ proposed' = proposed \cup {block}
    /\ UNCHANGED <<votor_vars, rotor_vars, validator_id, current_leader, now,
                    search_vars>>

\* ConsensusEngine::propose_block
propose_block(block) ==
    IF current_leader # validator_id
    THEN /\ ret' = NotLeader(block.slot)
         /\ UNCHANGED <<votor_vars, rotor_vars, engine_vars, proposed,
                         search_vars>>
    ELSE IF block.slot # current_slot
    THEN /\ ret' = InvalidSlot(current_slot, block.slot)
         /\ UNCHANGED <<votor_vars, rotor_vars, engine_vars, proposed,
                         search_vars>>
    ELSE /\ round1_start' = <<now>>
         /\ ret' = Ok(encode_block(validator_set, block))
         /\ proposed' = proposed \cup {block}
         /\ UNCHANGED <<votor_vars, rotor_vars, validator_id, current_leader,
                         now, search_vars>>

\* ConsensusEngine::receive_shred
receive_shred(shred) ==
    LET o == EngineReceiveShredOutcome(shred)
    IN  /\ received_shreds' = o.received_shreds
        /\ reconstructed_blocks' = o.reconstructed_blocks
        /\ vote_sets' = o.vote_sets
        /\ finalized' = o.finalized
        /\ ret' = o.ret
        /\ UNCHANGED <<validator_set, current_slot, current_round, engine_vars,
                        proposed, search_vars>>

\* ConsensusEngine::process_vote
engine_process_vote(vote) ==
    LET o == ProcessVoteOutcome(vote)
    IN  /\ vote_sets' = o.vote_sets
        /\ finalized' = o.finalized
        /\ ret' = IF o.ret.tag = "Err" THEN ConsensusError("VotorError", o.ret)
                   ELSE o.ret
        /\ UNCHANGED <<validator_set, current_slot, current_round, rotor_vars,
                        engine_vars, proposed, search_vars>>

\* ConsensusEngine::check_round1_timeout, with the advance_to_round2 it calls
check_round1_timeout ==
    /\ IF round1_elapsed
       THEN current_round' = "Round2" /\ ret' = Bool(TRUE)
       ELSE current_round' = current_round /\ ret' = Bool(FALSE)
    /\ UNCHANGED <<validator_set, current_slot, vote_sets, finalized,
                    rotor_vars, engine_vars, proposed, search_vars>>

\* ConsensusEngine::next_slot that does not clear the round-1 timer
engine_next_slot_keeps_timer ==
    /\ current_slot < MaxEngineSlot
    /\ current_slot' = SlotNext(current_slot)
    /\ current_round' = "Round1"
    /\ current_leader' = (current_leader + 1) % validator_set_len(validator_set)
    /\ ret' = Unit
    /\ UNCHANGED <<validator_set, vote_sets, finalized, rotor_vars,
                    validator_id, round1_start, now, proposed, search_vars>>

\* ConsensusEngine::next_slot, with the Votor::next_slot it calls
engine_next_slot ==
    /\ current_slot < MaxEngineSlot
    /\ current_slot' = SlotNext(current_slot)
    /\ current_round' = "Round1"
    /\ round1_start' = <<>>
    /\ current_leader' = (current_leader + 1) % validator_set_len(validator_set)
    /\ ret' = Unit
    /\ UNCHANGED <<validator_set, vote_sets, finalized, rotor_vars,
                    validator_id, now, proposed, search_vars>>

\* the clock advances by half a round-1 timeout
Tick ==
    /\ now < MaxTicks * (ROUND1_TIMEOUT_MS \div 2)
    /\ now' = now + ROUND1_TIMEOUT_MS \div 2
    /\ UNCHANGED <<votor_vars, rotor_vars, validator_id, current_leader,
                    round1_start, proposed, ret, search_vars>>

\* validator 0 (stake 3) and validator 1 (stake 2), flagged offline
EngineValidators ==
    BuildValidatorSet(<<ValidatorConfig(0, 3),
                        [ValidatorConfig(1, 2) EXCEPT !.is_offline = TRUE]>>)

\* the block of slot 0 and the block of slot 1
EngineBlocks ==
    {Block("B1", 0, <<>>, 0, <<>>, 1000),
     Block("B2", 1, <<"B1">>, 1, <<>>, 1001)}

\* the shreds that reach the engine: those of the blocks, encoded by their
\* leaders over the same validator set
EngineShreds == ShredsOf(EngineValidators, EngineBlocks)

\* the votes of the other validator for the block of slot 0
EngineVotes == VoteOf({0, 1}, {"B1"}, {0})

\* the engine of validator 0, or the engine of validator 1
EngineInit == \E id \in {0, 1} : InitEngine(id, EngineValidators)

BlockProposed == \E block \in EngineBlocks : propose_block(block)

ShredReceived == \E shred \in EngineShreds : receive_shred(shred)

\* a vote of another validator is handed to the engine
VoteReceived ==
    \E vote \in EngineVotes :
        /\ vote.validator # validator_id
        /\ Cardinality({v \in RecordedVotes(vote_sets) :
                            v.validator # validator_id}) < MaxEngineVotes
        /\ engine_process_vote(vote)

EngineNext ==
    \/ BlockProposed
    \/ ShredReceived
    \/ VoteReceived
    \/ check_round1_timeout
    \/ engine_next_slot
    \/ Tick

EngineSpec == EngineInit /\ [][EngineNext]_vars

\* two blocks of slot 0 with different ids: the leader of slot 0 equivocates
EquivocatingBlocks ==
    {Block("B1", 0, <<>>, 0, <<>>, 1000),
     Block("B2", 0, <<>>, 0, <<>>, 1001)}

\* the engine of validator 0 or 1, both honest, stakes 3 and 2
EquivocationInit == \E id \in {0, 1} : InitEngine(id, TwoValidators)

EquivocatingBlockProposed ==
    \E block \in EquivocatingBlocks : propose_block(block)

\* a shred of either block, encoded over the validator set, reaches the engine
EquivocatingShredReceived ==
    \E shred \in ShredsOf(TwoValidators, EquivocatingBlocks) :
        receive_shred(shred)

EquivocationNext ==
    \/ EquivocatingBlockProposed
    \/ EquivocatingShredReceived
    \/ check_round1_timeout
    \/ Tick

EquivocationSpec == EquivocationInit /\ [][EquivocationNext]_vars

\* ValidatorSet::new(): no engine is built yet
RegistryInit ==
    /\ validator_set = ValidatorSetNew
    /\ ret = [tag |-> "Registry"]
    /\ current_slot = <<>> /\ current_round = <<>>
    /\ vote_sets = <<>> /\ finalized = <<>>
    /\ received_shreds = <<>> /\ reconstructed_blocks = <<>>
    /\ validator_id = <<>> /\ current_leader = <<>>
    /\ round1_start = <<>> /\ now = <<>>
    /\ proposed = <<>> /\ model = <<>> /\ state = <<>>

\* vset.add_validator(config) for an id in 0..3, a repeated id included, and
\* a stake of 1 or 2
ValidatorAdded ==
    \E id \in 0..3, stake \in 1..2 :
        /\ ret.tag = "Registry"
        /\ validator_set.total_stake + stake <= MaxRegistryStake
        /\ validator_set' = add_validator(validator_set, ValidatorConfig(id, stake))
        /\ UNCHANGED <<current_slot, current_round, vote_sets, finalized,
                        rotor_vars, engine_vars, proposed, ret, search_vars>>

\* ConsensusEngine::new(id, vset, config) for a registered id, over the set
\* built so far when it is not empty
EngineConstructed ==
    \E id \in DOMAIN validator_set.validators :
        /\ ret.tag = "Registry"
        /\ current_slot' = 0
        /\ current_round' = "Round1"
        /\ vote_sets' = <<>>
        /\ finalized' = <<>>
        /\ received_shreds' = <<>>
        /\ reconstructed_blocks' = <<>>
        /\ validator_id' = id
        /\ current_leader' = 0
        /\ round1_start' = <<>>
        /\ now' = 0
        /\ proposed' = {}
        /\ ret' = [tag |-> "New"]
        /\ UNCHANGED <<validator_set, search_vars>>

\* next_slot of the engine that was built
RegistrySlotEnds == ret.tag # "Registry" /\ engine_next_slot

RegistryNext ==
    \/ ValidatorAdded
    \/ EngineConstructed
    \/ RegistrySlotEnds

RegistrySpec == RegistryInit /\ [][RegistryNext]_vars

(***************************************************************************)
(* tests/stateright_model.rs: the protocol model that the tests explore    *)
(* breadth of.  model is the AlpenglowModel, state the State reached.  A   *)
(* BTreeMap is a function, a BTreeSet a set, the Option a sequence of      *)
(* length 0 or 1.                                                          *)
(***************************************************************************)
\* AlpenglowModel::new
AlpenglowModelNew(validator_count) ==
    [validator_count |-> validator_count, byzantine |-> {}, offline |-> {}]

\* AlpenglowModel::total_stake, fast_quorum, fallback_quorum, is_honest
total_stake(m) == m.validator_count
fast_quorum(m) == (total_stake(m) * 80) \div 100
fallback_quorum(m) == (total_stake(m) * 60) \div 100
is_honest(m, v) == v \notin m.byzantine /\ v \notin m.offline

\* AlpenglowModel::initial_state
initial_state ==
    [slot |-> 0, leader |-> 0, proposed |-> <<>>,
     votes_round1 |-> <<>>, votes_round2 |-> <<>>, finalized |-> <<>>,
     round |-> "Round1", skip_votes |-> <<>>, skipped |-> {},
     partitioned |-> <<>>, partition_healed |-> FALSE]

\* BlockId::new([state.slot as u8; 32]): [1u8; 32] is B1 and [2u8; 32] is B2
BlockIdOfSlot(k) ==
    IF k % 256 = 0 THEN "B0"
    ELSE IF k % 256 = 1 THEN "B1"
    ELSE IF k % 256 = 2 THEN "B2"
    ELSE OtherBlockId

\* map.get(key).map(|votes| votes.contains(&v)).unwrap_or(false)
Contains(map, key, v) == key \in DOMAIN map /\ v \in map[key]

\* map.get(key).map(|v| v.len()).unwrap_or(0)
LenAt(map, key) == IF key \in DOMAIN map THEN Cardinality(map[key]) ELSE 0

\* map.entry(key).or_insert_with(BTreeSet::new).insert(v)
EntryInsert(map, key, v) ==
    MapInsert(map, key, (IF key \in DOMAIN map THEN map[key] ELSE {}) \cup {v})

\* 0..validator_count as ValidatorId
ModelValidators(m) == 0..(m.validator_count - 1)

\* the finalized entries of a slot
FinalizedIn(s, k) == {i \in 1..Len(s.finalized) : s.finalized[i][2] = k}

RECURSIVE SumLen(_)
\* the number of votes held by the sets of a map
SumLen(map) ==
    IF DOMAIN map = {} THEN 0
    ELSE LET k == CHOOSE x \in DOMAIN map : TRUE
         IN  Cardinality(map[k])
               + SumLen([x \in DOMAIN map \ {k} |-> map[x]])

\* the votes cast so far (round 1, round 2, skip) are below the cap; the
\* models of one and of two validators are explored without it
VotesWithinCap ==
    \/ model.validator_count < 3
    \/ SumLen(state.votes_round1) + SumLen(state.votes_round2)
          + SumLen(state.skip_votes) < MaxSearchVotes

\* what the search does not reach
outside_search == <<votor_vars, rotor_vars, engine_vars, proposed, ret>>

\* the step of an action: the next State, the model and the rest kept
Step(next) ==
    /\ state' = next
    /\ UNCHANGED <<model, outside_search>>

\* Action::ProposeBlock
ProposeBlockAction ==
    /\ state.slot \notin DOMAIN state.proposed
    /\ is_honest(model, state.leader)
    /\ Step([state EXCEPT !.proposed =
                MapInsert(@, state.slot,
                          <<BlockIdOfSlot(state.slot), state.leader>>)])

\* Action::VoteRound1
VoteRound1 ==
    \E v \in ModelValidators(model) :
        /\ state.slot \in DOMAIN state.proposed
        /\ state.round = "Round1"
        /\ is_honest(model, v)
        /\ ~Contains(state.votes_round1, state.proposed[state.slot][1], v)
        /\ VotesWithinCap
        /\ Step([state EXCEPT !.votes_round1 =
                    EntryInsert(@, state.proposed[state.slot][1], v)])

\* Action::CheckFastQuorum offered whatever the number of round-1 votes
CheckFastQuorum_any_votes ==
    /\ state.slot \in DOMAIN state.proposed
    /\ state.round = "Round1"
    /\ state.proposed[state.slot][1] \in DOMAIN state.votes_round1
    /\ Cardinality(FinalizedIn(state, state.slot)) < MaxFinalized
    /\ Step([state EXCEPT !.finalized =
                Append(@, <<state.proposed[state.slot][1], state.slot,
                            "Round1">>)])

\* Action::CheckFastQuorum
CheckFastQuorum ==
    /\ state.slot \in DOMAIN state.proposed
    /\ state.round = "Round1"
    /\ state.proposed[state.slot][1] \in DOMAIN state.votes_round1
    /\ LenAt(state.votes_round1, state.proposed[state.slot][1])
          >= fast_quorum(model)
    /\ Cardinality(FinalizedIn(state, state.slot)) < MaxFinalized
    /\ Step([state EXCEPT !.finalized =
                Append(@, <<state.proposed[state.slot][1], state.slot,
                            "Round1">>)])

\* Action::AdvanceToRound2
AdvanceToRound2 ==
    /\ state.slot \in DOMAIN state.proposed
    /\ state.round = "Round1"
    /\ Step([state EXCEPT !.round = "Round2"])

\* Action::VoteRound2
VoteRound2 ==
    \E v \in ModelValidators(model) :
        /\ state.slot \in DOMAIN state.proposed
        /\ state.round = "Round2"
        /\ is_honest(model, v)
        /\ ~Contains(state.votes_round2, state.proposed[state.slot][1], v)
        /\ VotesWithinCap
        /\ Step([state EXCEPT !.votes_round2 =
                    EntryInsert(@, state.proposed[state.slot][1], v)])

\* Action::CheckFallbackQuorum
CheckFallbackQuorum ==
    /\ state.slot \in DOMAIN state.proposed
    /\ state.round = "Round2"
    /\ state.proposed[state.slot][1] \in DOMAIN state.votes_round2
    /\ LenAt(state.votes_round2, state.proposed[state.slot][1])
          >= fallback_quorum(model)
    /\ Cardinality(FinalizedIn(state, state.slot)) < MaxFinalized
    /\ Step([state EXCEPT !.finalized =
                Append(@, <<state.proposed[state.slot][1], state.slot,
                            "Round2">>)])

\* Action::VoteSkip
VoteSkip ==
    \E v \in ModelValidators(model) :
        /\ state.slot \notin DOMAIN state.proposed
        /\ is_honest(model, v)
        /\ ~Contains(state.skip_votes, state.slot, v)
        /\ VotesWithinCap
        /\ Step([state EXCEPT !.skip_votes = EntryInsert(@, state.slot, v)])

\* Action::CheckSkipQuorum offered also after a proposal
CheckSkipQuorum_after_proposal ==
    /\ state.slot \in DOMAIN state.skip_votes
    /\ LenAt(state.skip_votes, state.slot) >= fallback_quorum(model)
    /\ Step([state EXCEPT !.skipped = @ \cup {state.slot}])

\* Action::CheckSkipQuorum
CheckSkipQuorum ==
    /\ state.slot \notin DOMAIN state.proposed
    /\ state.slot \in DOMAIN state.skip_votes
    /\ LenAt(state.skip_votes, state.slot) >= fallback_quorum(model)
    /\ Step([state EXCEPT !.skipped = @ \cup {state.slot}])

\* Action::NextSlot offered for a skipped slot only
NextSlot_skipped_only ==
    /\ state.slot \in state.skipped
    /\ state.slot < 2
    /\ state.slot < MaxSearchSlot
    /\ Step([state EXCEPT
                !.slot = @ + 1,
                !.leader = (state.leader + 1) % model.validator_count,
                !.round = "Round1"])

\* Action::NextSlot
NextSlot ==
    /\ \/ FinalizedIn(state, state.slot) # {}
       \/ state.slot \in state.skipped
    /\ state.slot < 2
    /\ state.slot < MaxSearchSlot
    /\ Step([state EXCEPT
                !.slot = @ + 1,
                !.leader = (state.leader + 1) % model.validator_count,
                !.round = "Round1"])

\* Action::NetworkPartition
NetworkPartition ==
    LET mid == model.validator_count \div 2
        p1  == {v \in ModelValidators(model) : v < mid}
        p2  == {v \in ModelValidators(model) : v >= mid}
    IN  /\ state.partitioned = <<>>
        /\ ~state.partition_healed
        /\ model.validator_count <= 4
        /\ Cardinality(p1) >= 2
        /\ Cardinality(p2) >= 2
        /\ Step([state EXCEPT !.partitioned = <<<<p1, p2>>>>])

\* Action::PartitionHeal
PartitionHeal ==
    /\ state.partitioned # <<>>
    /\ Step([state EXCEPT !.partitioned = <<>>, !.partition_healed = TRUE])

\* AlpenglowModel::check_no_fork: an entry of the finalized list after one of
\* the same slot has the same block id
check_no_fork(s) ==
    \A i, j \in 1..Len(s.finalized) :
        s.finalized[i][2] = s.finalized[j][2]
            => s.finalized[i][1] = s.finalized[j][1]

\* AlpenglowModel::check_quorum_validity
check_quorum_validity(m, s) ==
    \A i \in 1..Len(s.finalized) :
        LET block_id == s.finalized[i][1]
        IN  IF s.finalized[i][3] = "Round1"
            THEN LenAt(s.votes_round1, block_id) >= fast_quorum(m)
            ELSE LenAt(s.votes_round2, block_id) >= fallback_quorum(m)

\* AlpenglowModel::check_voting_integrity: no validator is met twice when the
\* voters of a block are listed
check_voting_integrity(s) ==
    /\ \A b \in DOMAIN s.votes_round1 : \A v \in s.votes_round1[b] :
          Cardinality({w \in s.votes_round1[b] : w = v}) = 1
    /\ \A b \in DOMAIN s.votes_round2 : \A v \in s.votes_round2[b] :
          Cardinality({w \in s.votes_round2[b] : w = v}) = 1

\* AlpenglowModel::check_partition_safety
check_partition_safety(s) == s.partitioned # <<>> => check_no_fork(s)

\* AlpenglowModel::check_post_partition_safety
check_post_partition_safety(m, s) ==
    s.partition_healed => check_no_fork(s) /\ check_quorum_validity(m, s)

\* the searches of test_exhaustive_small_model (3 validators) and of
\* test_network_partition_safety (4), and one over 5 validators, each from
\* the initial state; no engine is built
SearchInit ==
    /\ \E n \in 3..5 : model = AlpenglowModelNew(n)
    /\ state = initial_state
    /\ validator_set = <<>> /\ current_slot = <<>> /\ current_round = <<>>
    /\ vote_sets = <<>> /\ finalized = <<>>
    /\ received_shreds = <<>> /\ reconstructed_blocks = <<>>
    /\ validator_id = <<>> /\ current_leader = <<>>
    /\ round1_start = <<>> /\ now = <<>>
    /\ proposed = <<>> /\ ret = <<>>

SearchNext ==
    \/ ProposeBlockAction
    \/ VoteRound1
    \/ VoteRound2
    \/ CheckFastQuorum
    \/ CheckFallbackQuorum
    \/ AdvanceToRound2
    \/ VoteSkip
    \/ CheckSkipQuorum
    \/ NextSlot
    \/ NetworkPartition
    \/ PartitionHeal

SearchSpec == SearchInit /\ [][SearchNext]_vars

\* the models of one and of two validators, from the initial state
LiveInit ==
    /\ \E n \in 1..2 : model = AlpenglowModelNew(n)
    /\ state = initial_state
    /\ validator_set = <<>> /\ current_slot = <<>> /\ current_round = <<>>
    /\ vote_sets = <<>> /\ finalized = <<>>
    /\ received_shreds = <<>> /\ reconstructed_blocks = <<>>
    /\ validator_id = <<>> /\ current_leader = <<>>
    /\ round1_start = <<>> /\ now = <<>>
    /\ proposed = <<>> /\ ret = <<>>

\* the actions that actions() offers to fewer than four validators: a
\* partition needs two halves of two
LiveNext ==
    \/ ProposeBlockAction
    \/ VoteRound1
    \/ VoteRound2
    \/ CheckFastQuorum
    \/ CheckFallbackQuorum
    \/ AdvanceToRound2
    \/ VoteSkip
    \/ CheckSkipQuorum
    \/ NextSlot

\* the slot at which NextSlot is no longer offered
Horizon == Min(2, MaxSearchSlot)

\* every step that does not depend on a validator's vote arriving is taken
\* when it stays offered: the proposal, the move to round 2, the quorum
\* checks and the next slot
TimeoutFairSpec ==
    /\ LiveInit /\ [][LiveNext]_vars
    /\ WF_vars(ProposeBlockAction)
    /\ WF_vars(AdvanceToRound2)
    /\ WF_vars(CheckFastQuorum)
    /\ WF_vars(CheckFallbackQuorum)
    /\ WF_vars(CheckSkipQuorum)
    /\ WF_vars(NextSlot)

\* weak fairness of every action
LiveSpec ==
    /\ TimeoutFairSpec
    /\ WF_vars(VoteRound1)
    /\ WF_vars(VoteRound2)
    /\ WF_vars(VoteSkip)

(***************************************************************************)
(* Properties.                                                             *)
(***************************************************************************)
\* Votor::is_finalized
is_finalized(fin, block_id) == \E i \in 1..Len(fin) : fin[i].block_id = block_id

\* the stake the registry gives a set of validator ids
RECURSIVE StakeOf(_)
StakeOf(ids) ==
    IF ids = {} THEN 0
    ELSE LET id == CHOOSE x \in ids : TRUE
         IN  (IF id \in DOMAIN validator_set.validators
              THEN validator_set.validators[id].stake ELSE 0)
             + StakeOf(ids \ {id})

\* S, the total stake, and the two thresholds floor(80*S/100), floor(60*S/100)
TotalStake == StakeOf(DOMAIN validator_set.validators)
FastThreshold == (80 * TotalStake) \div 100
FallbackThreshold == (60 * TotalStake) \div 100

Round1Voters(vsets, b) ==
    IF b \in DOMAIN vsets THEN DOMAIN vsets[b].round1_votes ELSE {}
Round2Voters(vsets, b) ==
    IF b \in DOMAIN vsets THEN DOMAIN vsets[b].round2_votes ELSE {}

Voters(cert) == {v.validator : v \in cert.votes}

\* C1: NoFork. Any two certificates of the finalized list that have the same
\* slot have the same block_id.
NoFork ==
    \A i, j \in 1..Len(finalized) :
        finalized[i].slot = finalized[j].slot
            => finalized[i].block_id = finalized[j].block_id

\* C2: UniqueCertificate. The finalized list holds at most one certificate per
\* slot: after a certificate for a slot, no vote appends another one for it.
UniqueCertificate ==
    \A i, j \in 1..Len(finalized) :
        i # j => finalized[i].slot # finalized[j].slot

\* C3: QuorumValidity. Every certificate carries votes of distinct registered
\* validators whose summed stake is its total_stake, and that stake is at least
\* floor(80*S/100) for Round1 and floor(60*S/100) for Round2.
QuorumValidity ==
    \A i \in 1..Len(finalized) :
        LET cert == finalized[i]
        IN  /\ Cardinality(Voters(cert)) = Cardinality(cert.votes)
            /\ Voters(cert) \subseteq DOMAIN validator_set.validators
            /\ StakeOf(Voters(cert)) = cert.total_stake
            /\ cert.round = "Round1" => cert.total_stake >= FastThreshold
            /\ cert.round = "Round2" => cert.total_stake >= FallbackThreshold

\* a Round2 certificate whose stake is exactly the fallback threshold
QuorumValidityWitness ==
    \E i \in 1..Len(finalized) :
        /\ finalized[i].round = "Round2"
        /\ finalized[i].total_stake = FallbackThreshold
        /\ finalized[i].votes # {}

\* every vote of a VoteSet is stored under its own validator, in the map of its
\* own round, in the VoteSet of its own block
OncePerRound ==
    \A b \in DOMAIN vote_sets :
        /\ vote_sets[b].block_id = b
        /\ \A k \in DOMAIN vote_sets[b].round1_votes :
              LET v == vote_sets[b].round1_votes[k]
              IN  v.validator = k /\ v.round = "Round1" /\ v.block_id = b
        /\ \A k \in DOMAIN vote_sets[b].round2_votes :
              LET v == vote_sets[b].round2_votes[k]
              IN  v.validator = k /\ v.round = "Round2" /\ v.block_id = b

\* the (validator, round, block_id) of the vote is recorded
Recorded(vsets, vote) ==
    vote.validator \in (IF vote.round = "Round1"
                        THEN Round1Voters(vsets, vote.block_id)
                        ELSE Round2Voters(vsets, vote.block_id))

\* process_vote called with a vote whose (validator, round, block_id) is
\* recorded returns DoubleVote and leaves the two maps of the VoteSet as large
\* as they are
RepeatRejected ==
    \A old \in RecordedVotes(vote_sets), s \in Slot :
        LET vote == [old EXCEPT !.slot = s]
            o    == ProcessVoteOutcome(vote)
            was  == vote_sets[vote.block_id]
            is   == o.vote_sets[vote.block_id]
        IN  /\ o.ret = Err("DoubleVote", vote.validator)
            /\ Cardinality(DOMAIN is.round1_votes)
                  = Cardinality(DOMAIN was.round1_votes)
            /\ Cardinality(DOMAIN is.round2_votes)
                  = Cardinality(DOMAIN was.round2_votes)
            /\ is = was

\* C4: NoDoubleVote. Each validator appears at most once per round in every
\* VoteSet, and a process_vote whose (validator, round, block_id) is already
\* recorded returns DoubleVote and changes the size of neither map.
NoDoubleVote == OncePerRound /\ RepeatRejected

\* a repeated vote was just rejected, the first one still recorded
NoDoubleVoteWitness ==
    /\ ret.tag = "Err" /\ ret.err = "DoubleVote"
    /\ \E b \in DOMAIN vote_sets :
          ret.validator \in DOMAIN vote_sets[b].round1_votes
                              \cup DOMAIN vote_sets[b].round2_votes

\* a call that returns an error returns UnknownValidator for an unregistered
\* validator or DoubleVote for a validator with a recorded vote, and writes
\* nothing
ErrorWritesNothing ==
    ret'.tag = "Err"
        => /\ UNCHANGED <<vote_sets, finalized, current_slot, current_round>>
           /\ \/ /\ ret'.err = "UnknownValidator"
                 /\ ret'.validator \notin DOMAIN validator_set.validators
              \/ /\ ret'.err = "DoubleVote"
                 /\ \E b \in DOMAIN vote_sets :
                        ret'.validator \in Round1Voters(vote_sets, b)
                                             \cup Round2Voters(vote_sets, b)

\* C5: a process_vote call that returns an error drops the vote: the vote sets,
\* the finalized list, the current slot and the current round are unchanged.
ErrorDropsVote == [][ErrorWritesNothing]_vars

\* a vote of an unregistered validator was just rejected, with votes recorded
ErrorDropsVoteWitness ==
    /\ ret.tag = "Err" /\ ret.err = "UnknownValidator"
    /\ ret.validator = UnknownId
    /\ TotalVotes(vote_sets) >= 1

\* the votes the step has added to the vote sets
NewVotes == RecordedVotes(vote_sets') \ RecordedVotes(vote_sets)

\* the step is the process_vote call that recorded this vote
JustRecorded(vote) ==
    /\ ~Recorded(vote_sets, vote)
    /\ Recorded(vote_sets', vote)
    /\ process_vote(vote)

\* the last call returned Some(cert) with this round
Returned(r, round) == r.tag = "Ok" /\ r.val # <<>> /\ r.val[1].round = round

\* a recorded vote returns a Round1 certificate exactly when the Round1 voters
\* of its block hold the fast threshold; the certificate is for that block,
\* carries those voters and their stake, and is appended to the finalized list
FastPathStep ==
    \A vote \in NewVotes :
        JustRecorded(vote) =>
            LET voters == Round1Voters(vote_sets', vote.block_id)
            IN  /\ ret'.tag = "Ok"
                /\ Returned(ret', "Round1") <=> StakeOf(voters) >= FastThreshold
                /\ Returned(ret', "Round1") =>
                      /\ ret'.val[1].block_id = vote.block_id
                      /\ ret'.val[1].slot = vote.slot
                      /\ Voters(ret'.val[1]) = voters
                      /\ ret'.val[1].total_stake = StakeOf(voters)
                      /\ finalized' = Append(finalized, ret'.val[1])
                      /\ is_finalized(finalized', vote.block_id)

\* five validators of stake 100: S = 500 and 400 is the fast quorum; the
\* Round1 votes of V0, V1, V2 return no certificate, V3's returns a Round1
\* certificate of stake 400, and the block is finalized
FastPathScenario ==
    \A vote \in NewVotes :
        (validator_set = FiveValidators /\ vote.round = "Round1"
            /\ JustRecorded(vote)) =>
            LET voters == Round1Voters(vote_sets', vote.block_id)
            IN  /\ TotalStake = 500 /\ FastThreshold = 400
                /\ (voters \subseteq {0, 1, 2}
                      /\ Round2Voters(vote_sets', vote.block_id) = {})
                      => ret' = Ok(<<>>)
                /\ (voters = {0, 1, 2, 3} /\ vote.validator = 3)
                      => /\ Returned(ret', "Round1")
                         /\ ret'.val[1].total_stake = 400
                         /\ is_finalized(finalized', vote.block_id)

\* C6: fast path. process_vote returns a Round1 certificate exactly when, after
\* recording the vote, the Round1 voters of the vote's block hold at least
\* floor(80*S/100); with five validators of stake 100 the votes of V0, V1, V2
\* return nothing and V3's vote returns a Round1 certificate of stake 400.
FastPath == [][FastPathStep /\ FastPathScenario]_vars

\* V3's Round1 vote just returned the first certificate: Round1, stake 400
FastPathWitness ==
    /\ validator_set = FiveValidators
    /\ Returned(ret, "Round1")
    /\ ret.val[1].total_stake = 400
    /\ Voters(ret.val[1]) = {0, 1, 2, 3}
    /\ finalized = <<ret.val[1]>>
    /\ is_finalized(finalized, "B1")

\* in Round2, a recorded vote for a block whose Round1 stake is below the fast
\* threshold returns a Round2 certificate exactly when the Round2 voters of
\* the block hold the fallback threshold
FallbackStep ==
    \A vote \in NewVotes :
        (current_round = "Round2" /\ JustRecorded(vote)
            /\ StakeOf(Round1Voters(vote_sets', vote.block_id)) < FastThreshold)
        =>  LET voters == Round2Voters(vote_sets', vote.block_id)
            IN  /\ ret'.tag = "Ok"
                /\ Returned(ret', "Round2")
                      <=> StakeOf(voters) >= FallbackThreshold
                /\ ~Returned(ret', "Round2") => ret' = Ok(<<>>)
                /\ Returned(ret', "Round2") =>
                      /\ ret'.val[1].block_id = vote.block_id
                      /\ ret'.val[1].slot = vote.slot
                      /\ Voters(ret'.val[1]) = voters
                      /\ ret'.val[1].total_stake = StakeOf(voters)
                      /\ finalized' = Append(finalized, ret'.val[1])

\* five validators of stake 100, Round1 votes of V0..V2 only: no certificate
\* is returned before V2's Round2 vote, which, after advance_to_round2 and the
\* Round2 votes of V0 and V1, returns a Round2 certificate of stake 300
FallbackScenario ==
    \A vote \in NewVotes :
        (validator_set = FiveValidators /\ JustRecorded(vote)
            /\ Round1Voters(vote_sets', vote.block_id) \subseteq {0, 1, 2}) =>
            LET voters == Round2Voters(vote_sets', vote.block_id)
            IN  /\ FallbackThreshold = 300
                /\ (voters \subseteq {0, 1, 2} /\ voters # {0, 1, 2})
                      => ret' = Ok(<<>>)
                /\ (voters = {0, 1, 2} /\ vote.round = "Round2"
                      /\ vote.validator = 2 /\ current_round = "Round2")
                      => /\ Returned(ret', "Round2")
                         /\ ret'.val[1].total_stake = 300

\* C7: fallback path. In Round2, with the block's Round1 stake below the fast
\* threshold, process_vote returns a Round2 certificate exactly when the Round2
\* voters of the block hold at least floor(60*S/100) after recording the vote;
\* with five validators of stake 100, after V0..V2 vote Round1,
\* advance_to_round2 and V0..V2 vote Round2, V2's Round2 vote is the first to
\* return a certificate: Round2, stake 300.
FallbackPath == [][FallbackStep /\ FallbackScenario]_vars

\* V2's Round2 vote just returned the first certificate: Round2, stake 300
FallbackPathWitness ==
    /\ validator_set = FiveValidators
    /\ current_round = "Round2"
    /\ Round1Voters(vote_sets, "B1") = {0, 1, 2}
    /\ Returned(ret, "Round2")
    /\ ret.val[1].total_stake = 300
    /\ Voters(ret.val[1]) = {0, 1, 2}
    /\ finalized = <<ret.val[1]>>

\* C8: arbitrary interleavings. Once the Round2 votes cast for a block in the
\* current slot hold the fallback quorum and the round of that slot is Round2,
\* in whatever order the votes and advance_to_round2 came, the finalized list
\* holds a certificate for the block.
FinalisesInAnyOrder ==
    \A b \in DOMAIN vote_sets :
        LET voters == {k \in DOMAIN vote_sets[b].round2_votes :
                          vote_sets[b].round2_votes[k].slot = current_slot}
        IN  (current_round = "Round2" /\ StakeOf(voters) >= FallbackThreshold)
                => is_finalized(finalized, b)

\* a step taken in Round1 appends no Round2 certificate and returns none
NoFallbackInRound1 ==
    current_round = "Round1" =>
        /\ ~Returned(ret', "Round2")
        /\ \A i \in 1..Len(finalized') :
              i > Len(finalized) => finalized'[i].round = "Round1"

\* C9: while the current round is Round1 no Round2 certificate is emitted,
\* whatever Round2 votes are processed.
Round2OnlyInRound2 == [][NoFallbackInRound1]_vars

\* in Round1, a Round2 vote that completes the fallback quorum of its block
\* has returned None
Round2OnlyInRound2Witness ==
    /\ current_round = "Round1"
    /\ ret = Ok(<<>>)
    /\ finalized = <<>>
    /\ \E b \in DOMAIN vote_sets :
          StakeOf(Round2Voters(vote_sets, b)) >= FallbackThreshold

\* a Round1 vote processed after advance_to_round2 or after next_slot that
\* raises the Round1 stake of its block to the fast threshold returns a
\* Round1 certificate for the block, appended to the finalized list
LateRound1Step ==
    \A vote \in NewVotes :
        (vote.round = "Round1"
            /\ (current_round = "Round2" \/ current_slot > 0)
            /\ JustRecorded(vote)
            /\ StakeOf(Round1Voters(vote_sets, vote.block_id)) < FastThreshold
            /\ StakeOf(Round1Voters(vote_sets', vote.block_id)) >= FastThreshold)
        =>  /\ Returned(ret', "Round1")
            /\ ret'.val[1].block_id = vote.block_id
            /\ finalized' = Append(finalized, ret'.val[1])

\* C10: Round-1 votes remain eligible forever: a Round1 vote that raises its
\* block's Round1 stake to the fast threshold yields a Round1 certificate also
\* after advance_to_round2 and after next_slot.
Round1EligibleForever == [][LateRound1Step]_vars

\* a Round1 certificate for slot 0 was just returned in Round2 of slot 1
Round1EligibleForeverWitness ==
    /\ current_round = "Round2"
    /\ current_slot = 1
    /\ Returned(ret, "Round1")
    /\ ret.val[1].slot = 0
    /\ finalized = <<ret.val[1]>>

\* a recorded vote that leaves the fast quorum satisfied and, in Round2, the
\* fallback quorum too returns one certificate: Round1, with the Round1 votes
FastPathWinsStep ==
    \A vote \in NewVotes :
        (JustRecorded(vote) /\ current_round = "Round2"
            /\ StakeOf(Round1Voters(vote_sets', vote.block_id)) >= FastThreshold
            /\ StakeOf(Round2Voters(vote_sets', vote.block_id))
                  >= FallbackThreshold)
        =>  /\ Returned(ret', "Round1")
            /\ ret'.val[1].votes
                  = {vote_sets'[vote.block_id].round1_votes[k] :
                        k \in Round1Voters(vote_sets', vote.block_id)}
            /\ ret'.val[1].total_stake
                  = StakeOf(Round1Voters(vote_sets', vote.block_id))
            /\ finalized' = Append(finalized, ret'.val[1])

\* C11: finalization tie-break. Whenever a processed vote leaves both the fast
\* quorum and, in Round2, the fallback quorum of its block satisfied, the one
\* certificate returned has round Round1 and carries the Round1 votes.
FastPathWins == [][FastPathWinsStep]_vars

\* in Round2, with the fallback quorum of the block held, a Round1 certificate
\* was just returned
FastPathWinsWitness ==
    /\ current_round = "Round2"
    /\ Returned(ret, "Round1")
    /\ StakeOf(Round2Voters(vote_sets, ret.val[1].block_id)) >= FallbackThreshold
    /\ Voters(ret.val[1]) = Round1Voters(vote_sets, ret.val[1].block_id)

\* a step keeps every certificate of the finalized list in its position, and
\* every finalized block finalized
AppendOnlyStep ==
    /\ Len(finalized') >= Len(finalized)
    /\ \A i \in 1..Len(finalized) : finalized'[i] = finalized[i]
    /\ \A b \in BlockId :
          is_finalized(finalized, b) => is_finalized(finalized', b)

\* C12: certificates are append-only. Every operation leaves the certificates
\* of the finalized list unchanged and in their position, so is_finalized(B),
\* once true, is true in every later state.
AppendOnly == [][AppendOnlyStep]_vars

\* two certificates were appended, and next_slot was called after them
AppendOnlyWitness ==
    /\ Len(finalized) = 2
    /\ finalized[1] # finalized[2]
    /\ current_slot = 1
    /\ is_finalized(finalized, "B1")

\* within a slot the round does not leave Round2, and a call that returns unit
\* in Round2 without moving the slot (advance_to_round2) changes no field
RoundMonotonicStep ==
    /\ (current_round = "Round2" /\ current_slot' = current_slot)
          => current_round' = "Round2"
    /\ current_round' # current_round
          => \/ current_round' = "Round2" /\ current_slot' = current_slot
             \/ current_round' = "Round1" /\ current_slot' = current_slot + 1
    /\ (current_round = "Round2" /\ ret' = [tag |-> "Unit"]
            /\ current_slot' = current_slot)
          => UNCHANGED <<validator_set, current_slot, current_round,
                         vote_sets, finalized>>

\* C13: RoundMonotonic. Within one slot the current round changes at most
\* once, from Round1 to Round2, and does not return to Round1 before
\* next_slot; advance_to_round2 called in Round2 changes nothing.
RoundMonotonic == [][RoundMonotonicStep]_vars

\* advance_to_round2 was just called in Round2 of slot 0: a Round2 certificate
\* of slot 0 is in the list, and the round is still Round2
RoundMonotonicWitness ==
    /\ current_slot = 0
    /\ current_round = "Round2"
    /\ ret = [tag |-> "Unit"]
    /\ \E i \in 1..Len(finalized) : finalized[i].round = "Round2"

\* the buffer of the block's id holds every shred of encode_block(b)
AllShredsReceived(b) ==
    LET shreds == encode_block(validator_set, b)
    IN  /\ b.id \in DOMAIN received_shreds
        /\ received_shreds[b.id] = [i \in 1..Len(shreds) |-> <<shreds[i]>>]

\* C20: round-trip. After encode_block(b), once all the shreds have been
\* delivered to a new Rotor, in any order, has_block(b.id) is true and
\* get_block(b.id) returns a block equal to b in id and in every field.
RoundTrip ==
    \A b \in proposed :
        AllShredsReceived(b)
            => /\ has_block(reconstructed_blocks, b.id)
               /\ get_block(reconstructed_blocks, b.id) = <<b>>

\* a check_round1_timeout call returns true and moves to Round2 when the timer
\* has elapsed in Round1, returns false once the round is Round2, and returns
\* false and keeps the round while the timer has not elapsed
OneShotStep ==
    check_round1_timeout =>
        /\ (round1_elapsed /\ current_round = "Round1")
              => ret' = Bool(TRUE) /\ current_round' = "Round2"
        /\ current_round = "Round2" => ret' = Bool(FALSE)
        /\ ~round1_elapsed
              => ret' = Bool(FALSE) /\ current_round' = current_round

\* C14: check_round1_timeout is one-shot. Once the round-1 timer has elapsed
\* the first call returns true and moves the round to Round2, and every later
\* call returns false until a new round 1 begins; before the timer has elapsed
\* every call returns false and leaves the round unchanged.
OneShot == [][OneShotStep]_vars

\* the slot never decreases, and a step that changes it is next_slot and
\* increases it by one
MonotonicSlotStep ==
    /\ current_slot' >= current_slot
    /\ current_slot' # current_slot
          => engine_next_slot /\ current_slot' = current_slot + 1

\* C15: MonotonicSlot. The engine's current_slot never decreases; it changes
\* only in next_slot, which increases it by exactly one.
MonotonicSlot == [][MonotonicSlotStep]_vars

\* next_slot was called twice, after a proposal, a vote and a timeout
MonotonicSlotWitness ==
    /\ current_slot = 2
    /\ ret = Unit
    /\ proposed # {}
    /\ vote_sets # <<>>

\* the step that changes the slot rotates the leader, resets the round,
\* clears the round-1 timer and keeps the vote sets, the certificates and the
\* shred buffers
NextSlotStep ==
    current_slot' # current_slot =>
        /\ current_leader'
              = (current_leader + 1) % Cardinality(DOMAIN validator_set.validators)
        /\ current_round' = "Round1"
        /\ round1_start' = <<>>
        /\ UNCHANGED <<vote_sets, finalized, received_shreds,
                        reconstructed_blocks>>

\* C16: next_slot sets the leader to (leader + 1) mod N, resets the round to
\* Round1 and clears the round-1 timer, and leaves every vote set, every
\* certificate and every shred buffer unchanged.
NextSlotEffect == [][NextSlotStep]_vars

\* after two next_slot calls the leader is validator 0 again, the timer that
\* a proposal had started is cleared, and votes, a certificate and shreds are
\* still held
NextSlotEffectWitness ==
    /\ current_slot = 2
    /\ current_leader = 0
    /\ current_round = "Round1"
    /\ round1_start = <<>>
    /\ proposed # {}
    /\ vote_sets # <<>>
    /\ finalized # <<>>
    /\ received_shreds # <<>>

\* propose_block by a validator that is not the leader returns NotLeader,
\* by the leader for another slot returns InvalidSlot, both without a write;
\* otherwise it returns the N shreds of the block and starts the timer
ProposeBlockStep ==
    \A block \in EngineBlocks :
        propose_block(block) =>
            IF current_leader # validator_id
            THEN /\ ret' = NotLeader(block.slot)
                 /\ UNCHANGED <<votor_vars, rotor_vars, engine_vars>>
            ELSE IF block.slot # current_slot
            THEN /\ ret' = InvalidSlot(current_slot, block.slot)
                 /\ UNCHANGED <<votor_vars, rotor_vars, engine_vars>>
            ELSE /\ ret'.tag = "Ok"
                 /\ Len(ret'.val) = Cardinality(DOMAIN validator_set.validators)
                 /\ \A i \in 1..Len(ret'.val) :
                       /\ ret'.val[i].block_id = block.id
                       /\ ret'.val[i].index = i - 1
                       /\ ret'.val[i].total_shreds = Len(ret'.val)
                 /\ Concat([i \in 1..Len(ret'.val) |-> <<ret'.val[i]>>])
                       = serialize(block)
                 /\ round1_start' = <<now>>
                 /\ UNCHANGED <<votor_vars, rotor_vars, validator_id,
                                 current_leader, now>>

\* C17: propose_block fails with NotLeader when the caller is not the current
\* leader and, for the leader, with InvalidSlot when block.slot differs from
\* the current slot, in both cases leaving the engine state unchanged;
\* otherwise it returns the N shreds of the block and starts the round-1
\* timer.
ProposeBlock == [][ProposeBlockStep]_vars

\* the engine of validator 1, the leader of slot 1, has proposed the block of
\* slot 1 after the clock had advanced: two shreds returned, the timer started
ProposeBlockWitness ==
    /\ ret.tag = "Ok"
    /\ "val" \in DOMAIN ret
    /\ Len(ret.val) = 2
    /\ Range(ret.val) \subseteq EngineShreds
    /\ round1_start = <<now>>
    /\ now > 0
    /\ current_slot = 1
    /\ validator_id = 1

\* the vote an engine casts when receive_shred reconstructs a block is a
\* Round1 vote, and an engine flagged byzantine or offline casts none
ReconstructionVoteStep ==
    \A shred \in EngineShreds :
        receive_shred(shred) =>
            /\ \A vote \in NewVotes : vote.round = "Round1"
            /\ (validator_set.validators[validator_id].is_byzantine
                   \/ validator_set.validators[validator_id].is_offline)
                  => NewVotes = {}

\* C18: when receive_shred reconstructs a block on an engine whose validator
\* is not flagged byzantine or offline, the vote the engine casts for it is a
\* Round1 vote, in whatever state the engine is; a flagged engine casts none.
ReconstructionVote == [][ReconstructionVoteStep]_vars

\* a receive_shred call for a block id that is already reconstructed does not
\* reach the Votor: it returns Ok(()) and records no vote
NoSecondEventStep ==
    \A shred \in EngineShreds :
        (receive_shred(shred) /\ shred.block_id \in DOMAIN reconstructed_blocks)
            => /\ ret' = OkUnit
               /\ UNCHANGED <<vote_sets, finalized>>

\* C19: for each block id the engine attempts its vote-on-reconstruction at
\* most once: receive_shred calls that arrive after the call that
\* reconstructed the block do not trigger it again.
NoSecondEvent == [][NoSecondEventStep]_vars

\* test_partial_shred_reception: (total_shreds * 80 + 99) / 100, the least
\* number of shreds that is 80% of the total
min_shreds(total_shreds) == (total_shreds * RECONSTRUCT_PCT + 99) \div 100

\* the block of the proposed ones that has this id
ProposedBlock(block_id) == CHOOSE b \in proposed : b.id = block_id

\* a receive_shred call for a shred of the encoded block returns the block
\* when the buffer then holds at least ceil(0.8 * N) shreds, and None when it
\* holds fewer
ReconstructionThresholdStep ==
    \A shred \in ShredsOf(validator_set, proposed) :
        rotor_receive_shred(shred) =>
            LET held == received_count(received_shreds'[shred.block_id])
            IN  IF held >= min_shreds(shred.total_shreds)
                THEN ret' = Ok(<<ProposedBlock(shred.block_id)>>)
                ELSE ret' = Ok(<<>>)

\* C21: reconstruction threshold. As soon as at least ceil(0.8 * N) distinct
\* shreds of the encoded block have been received, in any order, receive_shred
\* returns a block equal to the original; with fewer it returns no block.
ReconstructionThreshold == [][ReconstructionThresholdStep]_vars

RECURSIVE DeliverAll(_, _, _)
\* the Rotor after receive_shred was called for each of the shreds in turn
DeliverAll(buffers, cache, shreds) ==
    IF shreds = <<>>
    THEN [received_shreds |-> buffers, reconstructed_blocks |-> cache]
    ELSE LET o == ReceiveShredInto(buffers, cache, shreds[1])
         IN  DeliverAll(o.received_shreds, o.reconstructed_blocks, Tail(shreds))

\* the shreds receive_shred may be handed
OpenShreds ==
    ShredsOf(validator_set, proposed) \cup ForgedShreds(validator_set, proposed)

\* a receive_shred call that returns InvalidShred or ErasureCodingFailed
\* leaves the buffers and the cache as they were, and the N shreds of the
\* block delivered after it reconstruct the block
ShredDroppedStep ==
    \A shred \in OpenShreds :
        (rotor_receive_shred(shred)
            /\ ret' \in {RotorError("InvalidShred"),
                         RotorError("ErasureCodingFailed")})
        =>  LET b     == ProposedBlock(shred.block_id)
                after == DeliverAll(received_shreds', reconstructed_blocks',
                                    encode_block(validator_set, b))
            IN  /\ UNCHANGED <<received_shreds, reconstructed_blocks>>
                /\ get_block(after.reconstructed_blocks, b.id) = <<b>>

\* C22: a shred that receive_shred rejects (InvalidShred or
\* ErasureCodingFailed) is dropped: the shred buffers and the reconstructed
\* cache are the same as before the call, and delivering all N shreds of the
\* block afterwards still reconstructs it.
ShredDropped == [][ShredDroppedStep]_vars

\* receive_shred returns InvalidShred exactly for a shred whose index is not
\* below its total_shreds, and stores every other shred at its index
InvalidShredStep ==
    \A shred \in OpenShreds :
        rotor_receive_shred(shred) =>
            /\ ret' = RotorError("InvalidShred")
                  <=> shred.index >= shred.total_shreds
            /\ shred.index < shred.total_shreds
                  => LET buffer == received_shreds'[shred.block_id]
                     IN  /\ shred.index + 1 \in DOMAIN buffer
                         /\ buffer[shred.index + 1] = <<shred>>

\* C23: receive_shred fails with InvalidShred exactly when shred.index >=
\* shred.total_shreds; every other shred is stored at position index of the
\* buffer of its block id, whatever shreds for that id were received before.
InvalidShredExactly == [][InvalidShredStep]_vars

\* the blocks the last call returned: the Some(block) of receive_shred
ReturnedBlocks ==
    IF ret.tag = "Ok" /\ "val" \in DOMAIN ret /\ Len(ret.val) = 1
          /\ "id" \in DOMAIN ret.val[1]
    THEN {ret.val[1]} ELSE {}

\* C24: every block the Rotor returns or caches as reconstructed has an id
\* equal to the hash of its own header fields (slot, parent, leader,
\* timestamp): a decoded block whose id is not that hash is rejected.
HashedId ==
    \A block \in ReturnedBlocks
                 \cup {reconstructed_blocks[id] : id \in DOMAIN reconstructed_blocks} :
        block.id = compute_id(block)

\* encode_block returns N shreds, the one at position i with index i, the
\* block's id and total_shreds N; their data concatenated is the serialized
\* block, and a shred without data is followed by shreds without data
EncodeBlockStep ==
    \A block \in RotorBlocks :
        rotor_encode_block(block) =>
            LET shreds == ret'.val
                n      == Cardinality(DOMAIN validator_set.validators)
            IN  /\ ret'.tag = "Ok"
                /\ Len(shreds) = n
                /\ \A i \in 1..Len(shreds) :
                      /\ shreds[i].index = i - 1
                      /\ shreds[i].total_shreds = n
                      /\ shreds[i].block_id = block.id
                /\ Concat([i \in 1..Len(shreds) |-> <<shreds[i]>>])
                      = serialize(block)
                /\ \A i, j \in 1..Len(shreds) :
                      (i < j /\ shreds[i].data = <<>>) => shreds[j].data = <<>>

\* C25: encode_block returns exactly N shreds (N the validator count, N >= 1):
\* the shred at position i has index i, total_shreds N and the block's id; the
\* data of the shreds concatenated in index order is the block's
\* serialisation; shreds after the last chunk have empty data.
EncodeBlockShape == [][EncodeBlockStep]_vars

\* a block was encoded into fewer chunks than there are validators: the last
\* of the N shreds returned is a padding shred without data
EncodeBlockShapeWitness ==
    /\ ret.tag = "Ok"
    /\ "val" \in DOMAIN ret
    /\ Len(ret.val) = validator_set_len(validator_set)
    /\ Len(ret.val) > 1
    /\ ret.val[1].data # <<>>
    /\ ret.val[Len(ret.val)].data = <<>>
    /\ ret.val[Len(ret.val)].index = Len(ret.val) - 1

NoFinalityInPartition ==
    [][(model.validator_count = 4 /\ state.partitioned # <<>>)
          => state'.finalized = state.finalized]_vars

\* a step that marks a slot skipped marks the current slot, in which no block
\* is proposed and whose skip voters reach the fallback quorum, 3 of 5; a
\* step that changes the skip votes adds one validator that had not voted in
\* the slot; a step that leaves slot 0 moves the leader from V0 to V1
SkipStep ==
    /\ state'.skipped # state.skipped =>
          /\ state'.skipped = state.skipped \cup {state.slot}
          /\ state.slot \notin DOMAIN state.proposed
          /\ LenAt(state.skip_votes, state.slot) >= fallback_quorum(model)
          /\ model.validator_count = 5
                => LenAt(state.skip_votes, state.slot) >= 3
    /\ state'.skip_votes # state.skip_votes =>
          /\ LenAt(state'.skip_votes, state.slot)
                = LenAt(state.skip_votes, state.slot) + 1
          /\ \A k \in DOMAIN state.skip_votes :
                k # state.slot => state'.skip_votes[k] = state.skip_votes[k]
          /\ state'.skip_votes[state.slot] \subseteq ModelValidators(model)
    /\ state'.slot # state.slot =>
          /\ state.slot \in state.skipped \/ FinalizedIn(state, state.slot) # {}
          /\ state'.leader = (state.leader + 1) % model.validator_count
          /\ state.slot = 0 => state.leader = 0 /\ state'.leader = 1

\* C28: skip. A slot is marked skipped only when no block has been proposed
\* in it and the validators that cast skip votes for it reach the fallback
\* quorum (3 of 5 equally staked validators); each validator's skip vote
\* counts once per slot, and the next_slot that follows moves the leader from
\* V0 to V1.
Skip == [][SkipStep]_vars

\* five validators: slot 0 had no proposal, three validators voted to skip
\* it, it was marked skipped, and NextSlot made V1 the leader of slot 1
SkipWitness ==
    /\ model.validator_count = 5
    /\ state.proposed = <<>>
    /\ LenAt(state.skip_votes, 0) = 3
    /\ state.skipped = {0}
    /\ state.finalized = <<>>
    /\ state.slot = 1
    /\ state.leader = 1

\* C29: for every stake distribution, a Round1 certificate is emitted only
\* when its voters hold at least 80% of the total stake (100 * stake >=
\* 80 * S) and a Round2 certificate only when its voters hold at least 60% of
\* the total stake (100 * stake >= 60 * S).
QuorumPercent ==
    \A i \in 1..Len(finalized) :
        LET cert == finalized[i]
        IN  /\ cert.round = "Round1"
                  => 100 * StakeOf(Voters(cert)) >= 80 * TotalStake
            /\ cert.round = "Round2"
                  => 100 * StakeOf(Voters(cert)) >= 60 * TotalStake

\* C30: NoFork argument. When the validators that hold at least 80% of the
\* stake each cast at most one Round1 vote per slot and the others, holding
\* at most 20%, vote arbitrarily, then for every validator set no two
\* distinct block ids of the same slot both obtain a Round1 certificate.
NoForkArgument ==
    \A i, j \in 1..Len(finalized) :
        (finalized[i].round = "Round1" /\ finalized[j].round = "Round1"
            /\ finalized[i].slot = finalized[j].slot)
        => finalized[i].block_id = finalized[j].block_id

\* C31: an engine whose validator is honest casts at most one Round1 vote per
\* slot: the Round1 votes of its validator that the Votor has recorded for
\* one slot are all for the same block id, also after it has reconstructed
\* a second block of the slot from shreds.
OneRound1VotePerSlot ==
    \A v, w \in RecordedVotes(vote_sets) :
        (v.validator = validator_id /\ w.validator = validator_id
            /\ v.round = "Round1" /\ w.round = "Round1" /\ v.slot = w.slot)
        => v.block_id = w.block_id

\* in slot 0, which began when the engine was constructed at time 0, once
\* round1_timeout has passed (and, where a round-1 timer was started, has
\* passed since it was started) and no Round1 certificate of the slot is in
\* the list, a check_round1_timeout call in Round1 moves the round to Round2
Round1TimeoutStep ==
    check_round1_timeout =>
        ((/\ current_slot = 0
          /\ current_round = "Round1"
          /\ now >= round1_timeout
          /\ round1_start # <<>> => round1_elapsed
          /\ \A i \in 1..Len(finalized) :
                 ~(finalized[i].slot = 0 /\ finalized[i].round = "Round1"))
            => current_round' = "Round2")

\* C32: on every validator's engine, leader or not, once the round-1 timeout
\* has elapsed in a slot without a fast quorum, polling check_round1_timeout
\* moves the engine from Round1 to Round2.
Round1TimeoutEverywhere == [][Round1TimeoutStep]_vars

\* a slot of the search is done: it has a certificate or is marked skipped
SlotDone(k) == FinalizedIn(state, k) # {} \/ k \in state.skipped

\* C33: a slot in which a block was proposed and the fallback quorum is not
\* reached is marked skipped after round 2, so that every slot eventually
\* has a certificate or is marked skipped, whether or not the votes arrive.
SkippedAfterRound2 ==
    \A k \in 0..Horizon :
        [](k \in DOMAIN state.proposed => <>SlotDone(k))

\* C34: Finalized and Skipped are terminal and mutually exclusive for a slot.
\* No slot is both in the skipped set and the slot of an entry of the
\* finalized list, so a slot that was marked skipped (the set only grows)
\* never obtains a certificate later.
FinalizedXorSkipped ==
    \A k \in state.skipped : FinalizedIn(state, k) = {}

\* a step that changes the engine's slot starts in a slot that has a
\* certificate (the engine keeps no skipped mark); any other step keeps the
\* slot, and with it the round's reset and the leader's rotation
TerminalSlotStep ==
    current_slot' # current_slot
        => \E i \in 1..Len(finalized) : finalized[i].slot = current_slot

\* C35: the slot advances only from a terminal state. next_slot takes effect
\* only when the current slot has a certificate or is marked skipped; in any
\* other state the slot, the round and the leader stay as they are.
AdvanceOnlyWhenTerminal == [][TerminalSlotStep]_vars

\* C36: liveness of the model. Under weak fairness of every action and with
\* all validators honest, every slot below the horizon eventually has a
\* certificate or is marked skipped, and the slot counter eventually reaches
\* the horizon.
SearchLiveness ==
    /\ \A k \in 0..(Horizon - 1) : <>SlotDone(k)
    /\ <>(state.slot = Horizon)

\* the slot counter is at the horizon, every slot below it is done, and one
\* of them was voted to a certificate by honest validators
SearchLivenessWitness ==
    /\ state.slot = Horizon
    /\ \A k \in 0..(Horizon - 1) : SlotDone(k)
    /\ state.finalized # <<>>
    /\ \A v \in ModelValidators(model) : is_honest(model, v)

\* C37: every vote carried by a certificate has the certificate's block_id,
\* round and slot, and all certificates for one block id carry the same slot:
\* votes whose slot differs from the slot the block was voted in do not count
\* toward its quorum.
CertificateVotesMatch ==
    /\ \A i \in 1..Len(finalized) : \A v \in finalized[i].votes :
          /\ v.block_id = finalized[i].block_id
          /\ v.round = finalized[i].round
          /\ v.slot = finalized[i].slot
    /\ \A i, j \in 1..Len(finalized) :
          finalized[i].block_id = finalized[j].block_id
              => finalized[i].slot = finalized[j].slot

\* C38: in every reachable engine state the current leader is a validator
\* registered in the validator set, for every non-empty validator set
\* (validator ids need not be 0..N-1), from construction through any number
\* of next_slot calls.
LeaderRegistered ==
    ret.tag # "Registry" => current_leader \in DOMAIN validator_set.validators

\* C39: after any sequence of add_validator calls, calls that repeat a
\* validator id included, the cached total_stake of the validator set equals
\* the sum of the stakes of the validators it holds.
CachedTotalStake ==
    validator_set.total_stake
        = SumStake(validator_set, DOMAIN validator_set.validators)

\* the buffer of a block id that is not cached holds enough shreds to be
\* decoded, and decodes to a block whose id is not the key
DecodesToOtherId(buffers, cache, block_id) ==
    /\ block_id \in DOMAIN buffers
    /\ block_id \notin DOMAIN cache
    /\ received_count(buffers[block_id])
          >= (Len(buffers[block_id]) * RECONSTRUCT_PCT) \div 100
    /\ deserialize(Concat(buffers[block_id])) # <<>>
    /\ deserialize(Concat(buffers[block_id]))[1].id # block_id

\* after a step every cached block is stored under its own id, and a
\* receive_shred call that stores a shred into a buffer which then decodes to
\* a block of another id returns InvalidShred and leaves the cache as it was
CacheKeyStep ==
    /\ \A k \in DOMAIN reconstructed_blocks' :
          reconstructed_blocks'[k].id = k
    /\ \A shred \in OpenShreds :
          (/\ rotor_receive_shred(shred)
           /\ shred.block_id \in DOMAIN received_shreds'
           /\ shred.index < Len(received_shreds'[shred.block_id])
           /\ DecodesToOtherId(received_shreds', reconstructed_blocks,
                                shred.block_id))
          => /\ ret' = RotorError("InvalidShred")
             /\ reconstructed_blocks' = reconstructed_blocks

\* C40: every block in the Rotor's reconstructed cache is stored under a key
\* equal to its own id field; a reconstruction whose decoded block id differs
\* from the buffer key fails with InvalidShred and caches nothing.
CacheKeyedById == [][CacheKeyStep]_vars

\* a call has just failed with InvalidShred on a buffer that decodes to a
\* block of another id, and nothing is cached
CacheKeyedByIdWitness ==
    /\ ret = RotorError("InvalidShred")
    /\ reconstructed_blocks = <<>>
    /\ \E block \in proposed :
          DecodesToOtherId(received_shreds, reconstructed_blocks, block.id)

====
